---- MODULE Spec2Model ----
(***************************************************************************)
(* Series standings of the fishing database application (src/app.py).     *)
(*                                                                         *)
(* The state is the SQLite store (the tournaments table and the series     *)
(* tables created by init_database, with the AUTOINCREMENT counters SQLite *)
(* keeps in sqlite_sequence) together with the request being served and    *)
(* the response the handler returned for it.  get_standings is translated *)
(* statement by statement: the three SELECTs, the per-participant loop,    *)
(* the two Python sorts (both stable) and the rank assignment.  The        *)
(* handlers that write the series tables are translated with the           *)
(* constraints SQLite enforces on a connection opened by get_db: NOT NULL  *)
(* and UNIQUE, and no foreign keys (no PRAGMA foreign_keys is issued).     *)
(*                                                                         *)
(* Points are modelled as integers: the sample data and the claims are     *)
(* about exact sums; binary floating-point rounding of REAL columns is     *)
(* outside this model.                                                     *)
(***************************************************************************)
EXTENDS Integers, Sequences, FiniteSets, TLC

VARIABLES tournaments, series, series_tournaments, series_categories,
          series_participants, series_points, sqlite_sequence, request, response

store == <<tournaments, series, series_tournaments, series_categories,
           series_participants, series_points, sqlite_sequence>>
vars == <<tournaments, series, series_tournaments, series_categories,
          series_participants, series_points, sqlite_sequence, request, response>>

(***************************************************************************)
(* Bounds of the model.                                                    *)
(***************************************************************************)
MaxEvents == 3
MaxParticipants == 2
\* The ids the write handlers may hand out, over all series tables together.
MaxIds == 5
\* The ids a database has handed out at most when it is seeded.
MaxIdsBeforeSeed == 1
\* The longest list of points sent in one save_series_points request.
MaxBatch == 2

(***************************************************************************)
(* SQL NULL / Python None.  An optional integer is <<>> (NULL) or <<v>>;   *)
(* an optional string column holds the string NullStr when it is NULL.     *)
(***************************************************************************)
None == <<>>
Some(v) == <<v>>
NullStr == "NULL"

\* Python truthiness of an Optional[int]: None and 0 are falsy.
Truthy(opt) == opt # None /\ opt[1] # 0

\* Python `opt or dflt` on an Optional[int].
OrElse(opt, dflt) == IF Truthy(opt) THEN opt[1] ELSE dflt

\* Python truthiness of an Optional[str]: None and "" are falsy.
TruthyStr(s) == s # NullStr /\ s # ""

\* The value applied when the series has no best_of (src/app.py:1084).
DefaultBestOf == 999

(***************************************************************************)
(* Sequences.                                                              *)
(***************************************************************************)
Min(a, b) == IF a <= b THEN a ELSE b

\* Python sum() of a list of integers.  Integer addition is associative, so
\* the list is summed by halves: a list of a thousand elements needs ten
\* nested applications, not a thousand.
RECURSIVE sum(_)
sum(s) ==
    IF s = <<>> THEN 0
    ELSE IF Len(s) = 1 THEN s[1]
    ELSE LET half == Len(s) \div 2
         IN  sum(SubSeq(s, 1, half)) + sum(SubSeq(s, half + 1, Len(s)))

\* A list given by its elements, built once.
List(f) == SubSeq(f, 1, Len(f))

\* Python s[:k] for k >= 0.
Take(s, k) == SubSeq(s, 1, Min(k, Len(s)))

\* Python's ordering of tuples of numbers (and of plain numbers, as 1-tuples).
RECURSIVE TupleLess(_, _)
TupleLess(a, b) ==
    IF a = <<>> THEN b # <<>>
    ELSE IF b = <<>> THEN FALSE
    ELSE IF a[1] # b[1] THEN a[1] < b[1]
    ELSE TupleLess(Tail(a), Tail(b))

\* Position q is placed before position p by a stable ascending sort: its
\* key is smaller, or the keys are equal and q came first.
PlacedBefore(keys, q, p) ==
    \/ TupleLess(keys[q], keys[p])
    \/ keys[q] = keys[p] /\ q < p

\* A stable ascending sort by key (Python's sorted and list.sort, SQLite's
\* sorter over a rowid scan): the positions 1..n in sorted order.  The
\* result of a stable sort is unique: position p lands behind exactly the
\* positions placed before it.
SortedPositions(keys, n) ==
    LET landing == List([p \in 1..n |->
                            Cardinality({q \in 1..n : PlacedBefore(keys, q, p)}) + 1])
    IN  List([i \in 1..n |-> CHOOSE p \in 1..n : landing[p] = i])

\* The sequence s rearranged by a stable ascending sort on keys.
StableSort(s, keys) ==
    LET order == SortedPositions(keys, Len(keys))
    IN  List([i \in 1..Len(s) |-> s[order[i]]])

(***************************************************************************)
(* The store.  A table is a set of rows with distinct ids; a SELECT        *)
(* without ORDER BY scans it in rowid order.                               *)
(***************************************************************************)
ScanOrder(table) ==
    LET placed == {<<Cardinality({q \in table : q.id < r.id}) + 1, r>> : r \in table}
    IN  List([i \in 1..Cardinality(table) |-> (CHOOSE pr \in placed : pr[1] = i)[2]])

\* The sort key of ORDER BY event_number: NULL sorts before every number.
EventNumberKey(t) ==
    IF t.event_number = None THEN <<0>> ELSE <<1, t.event_number[1]>>

\* SELECT * FROM series_tournaments WHERE series_id = ? ORDER BY event_number
\* (rows with equal event_number stay in scan order).
SelectTournaments(series_id) ==
    LET rows == ScanOrder({t \in series_tournaments : t.series_id = series_id})
    IN  StableSort(rows, List([i \in 1..Len(rows) |-> EventNumberKey(rows[i])]))

\* A group filter that takes "private" and "charter" by boat_type alone.
GroupKeepsByBoatType(part, group) ==
    IF TruthyStr(group) /\ group # "all"
    THEN IF group \in {"private", "charter"}
         THEN part.boat_type = group
         ELSE part.participant_type = group
    ELSE TRUE

\* A group filter without the branch for "private" and "charter".
GroupKeepsByType(part, group) ==
    IF TruthyStr(group) /\ group # "all"
    THEN part.participant_type = group
    ELSE TRUE

\* The participant query of get_standings with its group filter.
GroupKeeps(part, group) ==
    IF TruthyStr(group) /\ group # "all"
    THEN IF group \in {"private", "charter"}
         THEN part.participant_type = "boat" /\ part.boat_type = group
         ELSE part.participant_type = group
    ELSE TRUE

SelectParticipants(series_id, group) ==
    ScanOrder({p \in series_participants :
                  p.series_id = series_id /\ GroupKeeps(p, group)})

\* The point query of get_standings with its category filter.
CategoryKeeps(p, category_id) ==
    IF Truthy(category_id) THEN p.category_id = category_id[1] ELSE TRUE

\* A point query without the series filter.
SelectPointsOfAllSeries(series_id, category_id) ==
    ScanOrder({p \in series_points : CategoryKeeps(p, category_id)})

SelectPoints(series_id, category_id) ==
    ScanOrder({p \in series_points :
                  p.series_id = series_id /\ CategoryKeeps(p, category_id)})

(***************************************************************************)
(* The standings loop of get_standings.                                    *)
(***************************************************************************)
\* A total over the entries of everybody at the event.
TourneyTotalOfEvent(pid, tid, all_points) ==
    LET AtEvent(p) == p.series_tournament_id = tid
        at_event == SelectSeq(all_points, AtEvent)
    IN  sum(List([i \in 1..Len(at_event) |-> at_event[i].points]))

\* pts_for_tourney and its sum, for one participant and one event.
TourneyTotal(pid, tid, all_points) ==
    LET Mine(p) == p.participant_id = pid /\ p.series_tournament_id = tid
        mine == SelectSeq(all_points, Mine)
        pts_for_tourney == List([i \in 1..Len(mine) |-> mine[i].points])
    IN  sum(pts_for_tourney)

\* tourney_totals.values(): the totals in the order of tourney_ids.
TourneyTotals(pid, tourney_ids, all_points) ==
    List([i \in 1..Len(tourney_ids) |->
             TourneyTotal(pid, tourney_ids[i], all_points)])

\* A count that takes an event with total 0 as fished.
EventsFishedNonNegative(totals) ==
    Cardinality({i \in 1..Len(totals) : totals[i] >= 0})

\* A count that takes any event with a total other than 0 as fished.
EventsFishedNonZero(totals) ==
    Cardinality({i \in 1..Len(totals) : totals[i] # 0})

\* A count that credits one event at most.
EventsFishedOnce(totals) ==
    IF \E i \in 1..Len(totals) : totals[i] > 0 THEN 1 ELSE 0

\* events_fished = sum(1 for tid in tourney_ids if tourney_totals.get(tid, 0) > 0)
EventsFished(totals) ==
    Cardinality({i \in 1..Len(totals) : totals[i] > 0})

\* A sort that forgets reverse=True.
SortedTotalsAscending(totals) ==
    StableSort(totals, List([i \in 1..Len(totals) |-> <<totals[i]>>]))

\* sorted(tourney_totals.values(), reverse=True)
\* (reverse=True keeps equal elements in their original order).
SortedTotals(totals) ==
    StableSort(totals, List([i \in 1..Len(totals) |-> <<-totals[i]>>]))

\* A slice that is one element too long.
BestOfScoreOneMore(sorted_totals, best_of, total_participation) ==
    sum(Take(sorted_totals, best_of + 1)) + total_participation

\* A best-of score that leaves the participation points out.
BestOfScoreWithoutBonus(sorted_totals, best_of, total_participation) ==
    sum(Take(sorted_totals, best_of))

\* best_of_score = sum(sorted_totals[:best_of]) + events_fished * participation_pts
BestOfScore(sorted_totals, best_of, total_participation) ==
    sum(Take(sorted_totals, best_of)) + total_participation

\* An aggregate that leaves the participation points out.
AggregateWithoutBonus(sorted_totals, total_participation) ==
    sum(sorted_totals)

\* An aggregate that takes the participation points off.
AggregateLessBonus(sorted_totals, total_participation) ==
    sum(sorted_totals) - total_participation

\* aggregate = sum(sorted_totals) + total_participation
Aggregate(sorted_totals, total_participation) ==
    sum(sorted_totals) + total_participation

\* A sort of (total, id) pairs: among equal totals the larger id comes first.
SortedTidsByPair(tourney_ids, totals) ==
    StableSort(tourney_ids,
               List([i \in 1..Len(tourney_ids) |-> <<-totals[i], -tourney_ids[i]>>]))

\* sorted(tourney_ids, key=lambda tid: tourney_totals.get(tid, 0), reverse=True)
SortedTids(tourney_ids, totals) ==
    StableSort(tourney_ids, List([i \in 1..Len(tourney_ids) |-> <<-totals[i]>>]))

\* A selection that forgets the cut: every event is selected.
CountedIdsOfAll(tourney_ids, totals, best_of) ==
    {tourney_ids[k] : k \in 1..Len(tourney_ids)}

\* counted_ids = set(sorted_tids[:best_of])
CountedIds(tourney_ids, totals, best_of) ==
    LET counted == Take(SortedTids(tourney_ids, totals), best_of)
    IN  {counted[k] : k \in 1..Len(counted)}

\* A breakdown that lists only the events with a positive total.
PerTournamentOfFished(tourney_ids, totals, counted_ids) ==
    [key \in {ToString(tourney_ids[i]) : i \in {k \in 1..Len(tourney_ids) : totals[k] > 0}} |->
        LET i == CHOOSE k \in 1..Len(tourney_ids) : ToString(tourney_ids[k]) = key
        IN  [points |-> totals[i],
             counted |-> tourney_ids[i] \in counted_ids /\ totals[i] > 0]]

\* per_tournament[str(tid)] = {"points": ..., "counted": ...}
PerTournament(tourney_ids, totals, counted_ids) ==
    [key \in {ToString(tourney_ids[i]) : i \in 1..Len(tourney_ids)} |->
        LET i == CHOOSE k \in 1..Len(tourney_ids) : ToString(tourney_ids[k]) = key
        IN  [points |-> totals[i],
             counted |-> tourney_ids[i] \in counted_ids /\ totals[i] > 0]]

\* One pass of the loop `for part in participants`.
StandingOf(part, tourney_ids, all_points, best_of, participation_pts) ==
    LET totals == TourneyTotals(part.id, tourney_ids, all_points)
        events_fished == EventsFished(totals)
        sorted_totals == SortedTotals(totals)
        total_participation == events_fished * participation_pts
        counted_ids == CountedIds(tourney_ids, totals, best_of)
    IN  [participant |-> part,
         per_tournament |-> PerTournament(tourney_ids, totals, counted_ids),
         best_of_score |-> BestOfScore(sorted_totals, best_of, total_participation),
         aggregate |-> Aggregate(sorted_totals, total_participation),
         events_fished |-> events_fished,
         counted_ids |-> counted_ids]

\* A sort key without the tie-break.
StandingKeyScoreOnly(x) == <<-x.best_of_score>>

\* standings.sort(key=lambda x: (-x["best_of_score"], -x["aggregate"]))
StandingKey(x) == <<-x.best_of_score, -x.aggregate>>

SortStandings(standings) ==
    StableSort(standings,
               List([i \in 1..Len(standings) |-> StandingKey(standings[i])]))

\* Ranks shared by rows that tie on both keys (1, 1, 3).
AssignSharedRanks(standings) ==
    [i \in 1..Len(standings) |->
        [participant |-> standings[i].participant,
         per_tournament |-> standings[i].per_tournament,
         best_of_score |-> standings[i].best_of_score,
         aggregate |-> standings[i].aggregate,
         events_fished |-> standings[i].events_fished,
         counted_ids |-> standings[i].counted_ids,
         rank |-> 1 + Cardinality({j \in 1..Len(standings) :
                        TupleLess(<<-standings[j].best_of_score, -standings[j].aggregate>>,
                                  <<-standings[i].best_of_score, -standings[i].aggregate>>)})]]

\* for i, s in enumerate(standings): s["rank"] = i + 1
AssignRanks(standings) ==
    [i \in 1..Len(standings) |->
        [participant |-> standings[i].participant,
         per_tournament |-> standings[i].per_tournament,
         best_of_score |-> standings[i].best_of_score,
         aggregate |-> standings[i].aggregate,
         events_fished |-> standings[i].events_fished,
         counted_ids |-> standings[i].counted_ids,
         rank |-> (i - 1) + 1]]

(***************************************************************************)
(* GET /api/series/{series_id}/standings                                   *)
(***************************************************************************)
\* The body the handler builds of the rows its four queries returned.
StandingsOf(series_row, tourney_list, participants, all_points) ==
    LET best_of == OrElse(series_row.best_of, DefaultBestOf)
        participation_pts == OrElse(series_row.participation_points, 0)
        tourney_ids == List([i \in 1..Len(tourney_list) |-> tourney_list[i].id])
        standings == List([i \in 1..Len(participants) |->
                              StandingOf(participants[i], tourney_ids, all_points,
                                         best_of, participation_pts)])
    IN  [status |-> 200,
         series |-> series_row,
         tournaments |-> tourney_list,
         standings |-> AssignRanks(SortStandings(standings)),
         best_of |-> best_of]

\* The body returned for an existing series when the queries run on the
\* store as it is.
Standings(series_row, group, category_id) ==
    StandingsOf(series_row,
                SelectTournaments(series_row.id),
                SelectParticipants(series_row.id, group),
                SelectPoints(series_row.id, category_id))

\* The server is idle: no request is being served.
NoRequest == [series_id |-> 0, group |-> NullStr, category_id |-> None]
NoResponse == [status |-> 0]

NotFound == [status |-> 404, detail |-> "Series not found"]

\* A handler that answers from a result kept since the server started on
\* the empty database, when no series existed.
get_standings_kept(series_id, group, category_id) ==
    /\ request = NoRequest
    /\ request' = [series_id |-> series_id, group |-> group,
                   category_id |-> category_id]
    /\ response' = NotFound
    /\ UNCHANGED store

\* A handler that writes the best_of it applied back to the series row.
get_standings_storing(series_id, group, category_id) ==
    LET found == {s \in series : s.id = series_id}
    IN  /\ request = NoRequest
        /\ request' = [series_id |-> series_id, group |-> group,
                       category_id |-> category_id]
        /\ response' = IF found = {} THEN NotFound
                       ELSE Standings(CHOOSE s \in found : TRUE, group, category_id)
        /\ series' = (series \ found)
                        \cup {[s EXCEPT !.best_of = Some(OrElse(s.best_of, DefaultBestOf))] :
                                 s \in found}
        /\ UNCHANGED <<tournaments,
                       series_tournaments, series_categories, series_participants,
                       series_points, sqlite_sequence>>

\* A handler that may return rows with equal scores in either order.
get_standings_unordered(series_id, group, category_id) ==
    LET found == {s \in series : s.id = series_id}
        body == Standings(CHOOSE s \in found : TRUE, group, category_id)
        n == Len(body.standings)
        backwards == [body EXCEPT !.standings =
                         AssignRanks([i \in 1..n |-> body.standings[n + 1 - i]])]
    IN  /\ request = NoRequest
        /\ request' = [series_id |-> series_id, group |-> group,
                       category_id |-> category_id]
        /\ \/ response' = IF found = {} THEN NotFound ELSE body
           \/ /\ found # {}
              /\ \A i, j \in 1..n :
                    StandingKey(body.standings[i]) = StandingKey(body.standings[j])
              /\ response' = backwards
        /\ UNCHANGED store

\* A handler without the check of the series row: a series that is not in
\* the store is scored as a series with no best_of and no participation
\* points.
get_standings_unchecked(series_id, group, category_id) ==
    LET found == {s \in series : s.id = series_id}
        series_row == IF found = {}
                      THEN [id |-> series_id, best_of |-> None,
                            participation_points |-> None]
                      ELSE CHOOSE s \in found : TRUE
    IN  /\ request = NoRequest
        /\ request' = [series_id |-> series_id, group |-> group,
                       category_id |-> category_id]
        /\ response' = Standings(series_row, group, category_id)
        /\ UNCHANGED store

\* A handler that takes a series without events or without participants
\* for an error.
get_standings_needing_data(series_id, group, category_id) ==
    LET found == {s \in series : s.id = series_id}
        missing == \/ SelectTournaments(series_id) = <<>>
                   \/ SelectParticipants(series_id, group) = <<>>
    IN  /\ request = NoRequest
        /\ request' = [series_id |-> series_id, group |-> group,
                       category_id |-> category_id]
        /\ response' = IF found = {} THEN NotFound
                       ELSE IF missing THEN [status |-> 500]
                       ELSE Standings(CHOOSE s \in found : TRUE, group, category_id)
        /\ UNCHANGED store

get_standings(series_id, group, category_id) ==
    LET found == {s \in series : s.id = series_id}
    IN  /\ request = NoRequest
        /\ request' = [series_id |-> series_id, group |-> group,
                       category_id |-> category_id]
        /\ response' = IF found = {} THEN NotFound
                       ELSE Standings(CHOOSE s \in found : TRUE, group, category_id)
        /\ UNCHANGED store

\* The server sends the handler's result and takes the next request: the
\* handlers are coroutines without an await, served one at a time.
Respond ==
    /\ request # NoRequest
    /\ request' = NoRequest
    /\ response' = NoResponse
    /\ UNCHANGED store

(***************************************************************************)
(* The stores a run starts on.  The database file outlives the process     *)
(* and init_database only creates the tables that are missing, so a run    *)
(* starts on the rows earlier requests stored: one series with its         *)
(* events, participants and point entries, as create_series,               *)
(* add_series_tournament, add_series_participant and save_series_points    *)
(* leave them.                                                             *)
(***************************************************************************)
BestOfValues == {None, Some(1), Some(2)}
ParticipationValues == {None, Some(2)}

\* The events of the series: ids in insertion order, event numbers running
\* with the ids or against them.
EventRows(n, ascending) ==
    {[id |-> e, series_id |-> 1,
      event_number |-> Some(IF ascending THEN e ELSE n + 1 - e)] : e \in 1..n}

\* The participants of the series: a private boat, a charter boat, an angler.
ParticipantRow(i) ==
    [id |-> i, series_id |-> 1,
     participant_type |-> IF i % 3 = 0 THEN "angler" ELSE "boat",
     boat_type |-> IF i % 3 = 1 THEN "private"
                   ELSE IF i % 3 = 2 THEN "charter" ELSE NullStr]

\* The point entries a store holds, as a map from (event, participant,
\* category) keys to points (None: no entry).  Either the first participant
\* alone has entries, at any event and in a second category at the first
\* event; or every participant has entries at the first two events.
FirstKeys(n) == {<<e, 1, 1>> : e \in 1..n}
SecondCategoryKeys(n) == {<<e, 1, 2>> : e \in 1..Min(n, 1)}
SharedKeys(n, m) == {<<e, p, 1>> : e \in 1..Min(n, 2), p \in 1..m}

SoloEntries(n) ==
    {a @@ b :
        a \in [FirstKeys(n) -> {None, Some(-1), Some(1)}],
        b \in [SecondCategoryKeys(n) -> {None, Some(-1), Some(0), Some(1)}]}

SharedEntries(n, m) == [SharedKeys(n, m) -> {None, Some(1), Some(2)}]

\* The stores by number of events n and of participants m, with their entries.
Shapes ==
    UNION {{<<n, MaxParticipants, entered>> : entered \in SoloEntries(n)} :
              n \in 0..MaxEvents}
    \cup UNION {{<<MaxEvents, m, entered>> : entered \in SharedEntries(MaxEvents, m)} :
                   m \in 0..MaxParticipants}

KeyBefore(a, b) ==
    \/ a[1] < b[1]
    \/ a[1] = b[1] /\ a[2] < b[2]
    \/ a[1] = b[1] /\ a[2] = b[2] /\ a[3] < b[3]

\* The rows of series_points for a choice of entries, with the ids the
\* inserts produced (event by event).
PointRows(entered) ==
    LET present == {k \in DOMAIN entered : entered[k] # None}
    IN  {[id |-> Cardinality({j \in present : KeyBefore(j, k)}) + 1,
          series_id |-> 1,
          series_tournament_id |-> k[1],
          participant_id |-> k[2],
          category_id |-> k[3],
          points |-> entered[k][1],
          notes |-> NullStr] : k \in present}

\* The categories the point entries of these stores refer to.
CategoryRows == {[id |-> c, series_id |-> 1] : c \in 1..2}

\* The AUTOINCREMENT counters after the inserts that produced a store: the
\* largest id of each table.
SequenceOf(n_series, n_events, n_categories, n_participants, n_points) ==
    [tournaments |-> 0,
     series |-> n_series, series_tournaments |-> n_events,
     series_categories |-> n_categories, series_participants |-> n_participants,
     series_points |-> n_points]

Init ==
    /\ \E bo \in BestOfValues, pp \in ParticipationValues :
          series = {[id |-> 1, best_of |-> bo, participation_points |-> pp]}
    /\ \E shape \in Shapes :
          /\ \E ascending \in BOOLEAN :
                series_tournaments = EventRows(shape[1], ascending)
          /\ series_participants = {ParticipantRow(i) : i \in 1..shape[2]}
          /\ series_points = PointRows(shape[3])
          /\ series_categories = CategoryRows
          /\ sqlite_sequence =
                SequenceOf(1, shape[1], Cardinality(CategoryRows), shape[2],
                           Cardinality(PointRows(shape[3])))
    /\ tournaments = {}
    /\ request = NoRequest
    /\ response = NoResponse

\* The requests served: the whole series, one group, one category, and a
\* series that does not exist.
Next ==
    \/ get_standings(1, NullStr, None)
    \/ \E group \in {"charter"} : get_standings(1, group, None)
    \/ \E category_id \in {Some(1), Some(2)} : get_standings(1, NullStr, category_id)
    \/ get_standings(2, NullStr, None)
    \/ Respond

Spec == Init /\ [][Next]_vars

(***************************************************************************)
(* The handlers that write the series tables.  Each runs on its own        *)
(* connection and commits at its end; an exception before the commit       *)
(* leaves the store as it was (the connection is closed uncommitted) and   *)
(* the framework answers 500.  An INTEGER PRIMARY KEY AUTOINCREMENT column *)
(* takes the table's counter in sqlite_sequence plus one.                  *)
(***************************************************************************)
\* The ids handed out so far, over all tables.
IdsUsed ==
    sqlite_sequence.series + sqlite_sequence.series_tournaments
    + sqlite_sequence.series_categories + sqlite_sequence.series_participants
    + sqlite_sequence.series_points

Ok == [status |-> 200]
ServerError == [status |-> 500]

\* POST /api/series
create_series(s) ==
    LET id == sqlite_sequence.series + 1
    IN  /\ request = NoRequest
        /\ IdsUsed < MaxIds
        /\ series' = series \cup {[id |-> id, best_of |-> s.best_of,
                                    participation_points |-> s.participation_points]}
        /\ sqlite_sequence' = [sqlite_sequence EXCEPT !.series = id]
        /\ request' = [op |-> "create_series"]
        /\ response' = Ok
        /\ UNCHANGED <<tournaments,
                       series_tournaments, series_categories, series_participants,
                       series_points>>

\* PUT /api/series/{series_id}
update_series(series_id, s) ==
    LET found == {r \in series : r.id = series_id}
    IN  /\ request = NoRequest
        /\ series' = (series \ found)
                        \cup {[id |-> r.id, best_of |-> s.best_of,
                                participation_points |-> s.participation_points] :
                                 r \in found}
        /\ request' = [op |-> "update_series", series_id |-> series_id]
        /\ response' = IF found = {} THEN NotFound ELSE Ok
        /\ UNCHANGED <<tournaments,
                       series_tournaments, series_categories, series_participants,
                       series_points, sqlite_sequence>>

\* DELETE /api/series/{series_id}: DELETE FROM series WHERE id = ?.  The
\* ON DELETE CASCADE clauses of the child tables belong to foreign keys,
\* which SQLite does not enforce on this connection.
delete_series(series_id) ==
    LET found == {r \in series : r.id = series_id}
    IN  /\ request = NoRequest
        /\ series' = series \ found
        /\ request' = [op |-> "delete_series", series_id |-> series_id]
        /\ response' = IF found = {} THEN NotFound ELSE Ok
        /\ UNCHANGED <<tournaments,
                       series_tournaments, series_categories, series_participants,
                       series_points, sqlite_sequence>>

\* POST /api/series/{series_id}/tournaments
add_series_tournament(series_id, t) ==
    LET id == sqlite_sequence.series_tournaments + 1
    IN  /\ request = NoRequest
        /\ IdsUsed < MaxIds
        /\ series_tournaments' =
              series_tournaments \cup {[id |-> id, series_id |-> series_id,
                                        event_number |-> t.event_number]}
        /\ sqlite_sequence' = [sqlite_sequence EXCEPT !.series_tournaments = id]
        /\ request' = [op |-> "add_series_tournament"]
        /\ response' = Ok
        /\ UNCHANGED <<tournaments,
                       series, series_categories, series_participants, series_points>>

\* DELETE /api/series/{series_id}/tournaments/{tournament_id}
delete_series_tournament(series_id, tournament_id) ==
    /\ request = NoRequest
    /\ series_tournaments' =
          {r \in series_tournaments : ~(r.id = tournament_id /\ r.series_id = series_id)}
    /\ request' = [op |-> "delete_series_tournament"]
    /\ response' = Ok
    /\ UNCHANGED <<tournaments,
                   series, series_categories, series_participants, series_points,
                   sqlite_sequence>>

\* POST /api/series/{series_id}/categories
add_series_category(series_id) ==
    LET id == sqlite_sequence.series_categories + 1
    IN  /\ request = NoRequest
        /\ IdsUsed < MaxIds
        /\ series_categories' =
              series_categories \cup {[id |-> id, series_id |-> series_id]}
        /\ sqlite_sequence' = [sqlite_sequence EXCEPT !.series_categories = id]
        /\ request' = [op |-> "add_series_category"]
        /\ response' = Ok
        /\ UNCHANGED <<tournaments,
                       series, series_tournaments, series_participants, series_points>>

\* DELETE /api/series/{series_id}/categories/{category_id}
delete_series_category(series_id, category_id) ==
    /\ request = NoRequest
    /\ series_categories' =
          {r \in series_categories : ~(r.id = category_id /\ r.series_id = series_id)}
    /\ request' = [op |-> "delete_series_category"]
    /\ response' = Ok
    /\ UNCHANGED <<tournaments,
                   series, series_tournaments, series_participants, series_points,
                   sqlite_sequence>>

\* POST /api/series/{series_id}/participants
add_series_participant(series_id, p) ==
    LET id == sqlite_sequence.series_participants + 1
    IN  /\ request = NoRequest
        /\ IdsUsed < MaxIds
        /\ series_participants' =
              series_participants
                 \cup {[id |-> id, series_id |-> series_id,
                         participant_type |-> p.participant_type,
                         boat_type |-> p.boat_type]}
        /\ sqlite_sequence' = [sqlite_sequence EXCEPT !.series_participants = id]
        /\ request' = [op |-> "add_series_participant"]
        /\ response' = Ok
        /\ UNCHANGED <<tournaments,
                       series, series_tournaments, series_categories, series_points>>

\* DELETE /api/series/{series_id}/participants/{participant_id}
delete_series_participant(series_id, participant_id) ==
    /\ request = NoRequest
    /\ series_participants' =
          {r \in series_participants :
              ~(r.id = participant_id /\ r.series_id = series_id)}
    /\ request' = [op |-> "delete_series_participant"]
    /\ response' = Ok
    /\ UNCHANGED <<tournaments,
                   series, series_tournaments, series_categories, series_points,
                   sqlite_sequence>>

\* Two point entries have the same (event, participant, category) key.
SameKey(a, b) ==
    /\ a.series_tournament_id = b.series_tournament_id
    /\ a.participant_id = b.participant_id
    /\ a.category_id = b.category_id

\* The row an INSERT makes of a point of the request.
NewPointRow(id, series_id, p) ==
    [id |-> id, series_id |-> series_id,
     series_tournament_id |-> p.series_tournament_id[1],
     participant_id |-> p.participant_id[1],
     category_id |-> p.category_id[1],
     points |-> p.points, notes |-> p.notes]

\* A plain INSERT on a table without the UNIQUE constraint: a row is added
\* whether or not the key has an entry.
InsertPoint(rows, last_id, series_id, p) ==
    [rows |-> rows \cup {NewPointRow(last_id + 1, series_id, p)},
     last_id |-> last_id + 1]

\* INSERT ... ON CONFLICT(series_tournament_id, participant_id, category_id)
\* DO UPDATE SET points=excluded.points, notes=excluded.notes.  The statement
\* takes an id from the counter before the conflict is found; on a conflict
\* the existing row keeps its id and its series_id.
UpsertPoint(rows, last_id, series_id, p) ==
    LET new == NewPointRow(last_id + 1, series_id, p)
        conflict == {r \in rows : SameKey(r, new)}
    IN  [rows |-> IF conflict = {} THEN rows \cup {new}
                  ELSE (rows \ conflict)
                          \cup {[r EXCEPT !.points = p.points, !.notes = p.notes] :
                                   r \in conflict},
         last_id |-> last_id + 1]

\* The loop `for p in points` of save_series_points.
RECURSIVE UpsertPoints(_, _, _, _)
UpsertPoints(rows, last_id, series_id, points) ==
    IF points = <<>> THEN [rows |-> rows, last_id |-> last_id]
    ELSE LET after == UpsertPoint(rows, last_id, series_id, points[1])
         IN  UpsertPoints(after.rows, after.last_id, series_id, Tail(points))

\* A point of the request that a NOT NULL column of series_points rejects.
ViolatesNotNull(p) ==
    \/ p.series_tournament_id = None
    \/ p.participant_id = None
    \/ p.category_id = None

\* A handler that commits after every point: the points before a rejected
\* one stay in the store.
save_series_points_one_by_one(series_id, points) ==
    LET failed == \E i \in 1..Len(points) : ViolatesNotNull(points[i])
        first_bad == CHOOSE i \in 1..Len(points) :
                        /\ ViolatesNotNull(points[i])
                        /\ \A j \in 1..(i - 1) : ~ViolatesNotNull(points[j])
        after == UpsertPoints(series_points, sqlite_sequence.series_points, series_id,
                              IF failed THEN SubSeq(points, 1, first_bad - 1) ELSE points)
    IN  /\ request = NoRequest
        /\ series_points' = after.rows
        /\ sqlite_sequence' = [sqlite_sequence EXCEPT !.series_points = after.last_id]
        /\ request' = [op |-> "save_series_points", series_id |-> series_id,
                       points |-> points]
        /\ response' = IF failed THEN ServerError
                       ELSE [status |-> 200, saved |-> Len(points)]
        /\ UNCHANGED <<tournaments,
                       series, series_tournaments, series_categories,
                       series_participants>>

\* POST /api/series/{series_id}/points.  An IntegrityError in the loop leaves
\* it before conn.commit(): none of the request's points is stored.
save_series_points(series_id, points) ==
    LET failed == \E i \in 1..Len(points) : ViolatesNotNull(points[i])
        first_bad == CHOOSE i \in 1..Len(points) :
                        /\ ViolatesNotNull(points[i])
                        /\ \A j \in 1..(i - 1) : ~ViolatesNotNull(points[j])
        after == UpsertPoints(series_points, sqlite_sequence.series_points, series_id,
                              IF failed THEN SubSeq(points, 1, first_bad - 1) ELSE points)
    IN  /\ request = NoRequest
        /\ series_points' = IF failed THEN series_points ELSE after.rows
        /\ sqlite_sequence' =
              IF failed THEN sqlite_sequence
              ELSE [sqlite_sequence EXCEPT !.series_points = after.last_id]
        /\ request' = [op |-> "save_series_points", series_id |-> series_id,
                       points |-> points]
        /\ response' = IF failed THEN ServerError
                       ELSE [status |-> 200, saved |-> Len(points)]
        /\ UNCHANGED <<tournaments,
                       series, series_tournaments, series_categories,
                       series_participants>>

(***************************************************************************)
(* POST /api/series/seed: the example series.                              *)
(***************************************************************************)
\* tourney_data: the event numbers.
SeedTourneyData == <<1, 2, 3, 4>>

\* cat_data: the sort orders of the thirteen categories.
SeedCatData == <<1, 2, 3, 4, 5, 6, 7, 8, 9, 10, 11, 12, 13>>

\* boat_data: the boat types of the six boats.
SeedBoatData == <<"private", "charter", "private", "charter", "private", "charter">>

\* points_data: (event, participant, category, points, note), the first
\* three as positions in the lists above.
SeedPointsData ==
    <<<<1, 1, 1, 300, "2 blue marlin releases">>,
      <<1, 1, 2, 100, "1 white marlin">>,
      <<1, 1, 5, 25, "42 lb tuna">>,
      <<1, 2, 1, 150, "1 blue marlin release">>,
      <<1, 2, 3, 75, "1 sailfish">>,
      <<1, 2, 6, 30, "38 lb wahoo">>,
      <<1, 3, 1, 450, "3 blue marlin releases">>,
      <<1, 3, 4, 50, "420 lb blue marlin">>,
      <<1, 4, 2, 200, "2 white marlin">>,
      <<1, 4, 7, 20, "28 lb dolphin">>,
      <<1, 5, 1, 150, "1 blue marlin release">>,
      <<1, 5, 5, 35, "55 lb tuna">>,
      <<1, 6, 3, 150, "2 sailfish">>,
      <<1, 6, 6, 40, "45 lb wahoo">>,
      <<2, 1, 1, 150, "1 blue marlin release">>,
      <<2, 1, 6, 45, "52 lb wahoo">>,
      <<2, 2, 1, 300, "2 blue marlin releases">>,
      <<2, 2, 2, 100, "1 white marlin">>,
      <<2, 3, 3, 75, "1 sailfish">>,
      <<2, 3, 5, 30, "48 lb tuna">>,
      <<2, 4, 1, 300, "2 blue marlin releases">>,
      <<2, 4, 4, 60, "480 lb blue marlin">>,
      <<2, 5, 1, 300, "2 blue marlin releases">>,
      <<2, 5, 2, 200, "2 white marlin">>,
      <<2, 6, 1, 150, "1 blue marlin release">>,
      <<2, 6, 5, 20, "35 lb tuna">>,
      <<3, 1, 1, 450, "3 blue marlin releases">>,
      <<3, 1, 4, 70, "510 lb blue marlin">>,
      <<3, 2, 2, 100, "1 white marlin">>,
      <<3, 2, 5, 25, "40 lb tuna">>,
      <<3, 3, 1, 300, "2 blue marlin releases">>,
      <<3, 3, 2, 100, "1 white marlin">>,
      <<3, 4, 1, 150, "1 blue marlin release">>,
      <<3, 4, 3, 75, "1 sailfish">>,
      <<3, 5, 1, 150, "1 blue marlin release">>,
      <<3, 5, 7, 25, "32 lb dolphin">>,
      <<3, 6, 1, 300, "2 blue marlin releases">>,
      <<3, 6, 2, 200, "2 white marlin">>,
      <<4, 1, 2, 200, "2 white marlin">>,
      <<4, 1, 3, 75, "1 sailfish">>,
      <<4, 2, 1, 150, "1 blue marlin release">>,
      <<4, 2, 4, 45, "380 lb blue marlin">>,
      <<4, 3, 1, 150, "1 blue marlin release">>,
      <<4, 3, 6, 35, "41 lb wahoo">>,
      <<4, 4, 1, 150, "1 blue marlin release">>,
      <<4, 4, 5, 40, "60 lb tuna">>,
      <<4, 5, 3, 150, "2 sailfish">>,
      <<4, 5, 6, 30, "36 lb wahoo">>,
      <<4, 6, 1, 150, "1 blue marlin release">>,
      <<4, 6, 7, 30, "35 lb dolphin">>>>

\* The rows the seeding inserts after the rows the counters stand for.
SeedPointRows(series_id, seq) ==
    {[id |-> seq.series_points + i, series_id |-> series_id,
      series_tournament_id |-> seq.series_tournaments + SeedPointsData[i][1],
      participant_id |-> seq.series_participants + SeedPointsData[i][2],
      category_id |-> seq.series_categories + SeedPointsData[i][3],
      points |-> SeedPointsData[i][4],
      notes |-> SeedPointsData[i][5]] : i \in 1..Len(SeedPointsData)}

\* A seeding that does not look at the series table first.
seed_series_unchecked ==
    LET series_id == sqlite_sequence.series + 1
        new_points == SeedPointRows(series_id, sqlite_sequence)
    IN  /\ request = NoRequest
        /\ series' = series \cup {[id |-> series_id, best_of |-> Some(3),
                                    participation_points |-> Some(25)]}
        /\ series_points' = series_points \cup new_points
        /\ sqlite_sequence' =
              [sqlite_sequence EXCEPT
                  !.series = series_id,
                  !.series_points = @ + Len(SeedPointsData)]
        /\ request' = [op |-> "seed_series"]
        /\ response' = [status |-> 200, seeded |-> 1]
        /\ UNCHANGED <<tournaments, series_tournaments, series_categories,
                       series_participants>>

\* The seeding does nothing when the series table has a row.  Its point
\* INSERTs have no ON CONFLICT clause: a key that already has an entry raises
\* IntegrityError before the commit and nothing of the seeding is stored.
\* A seeding that inserts is explored on databases that have handed out at
\* most MaxIdsBeforeSeed ids.
seed_series ==
    LET series_id == sqlite_sequence.series + 1
        new_points == SeedPointRows(series_id, sqlite_sequence)
        conflict == \/ \E a \in new_points, r \in series_points : SameKey(a, r)
                    \/ \E a, b \in new_points : a # b /\ SameKey(a, b)
        stored == series = {} /\ ~conflict
    IN  /\ request = NoRequest
        /\ series # {} \/ IdsUsed <= MaxIdsBeforeSeed
        /\ series' =
              IF stored
              THEN {[id |-> series_id, best_of |-> Some(3),
                     participation_points |-> Some(25)]}
              ELSE series
        /\ series_tournaments' =
              IF stored
              THEN series_tournaments
                      \cup {[id |-> sqlite_sequence.series_tournaments + i,
                              series_id |-> series_id,
                              event_number |-> Some(SeedTourneyData[i])] :
                               i \in 1..Len(SeedTourneyData)}
              ELSE series_tournaments
        /\ series_categories' =
              IF stored
              THEN series_categories
                      \cup {[id |-> sqlite_sequence.series_categories + i,
                              series_id |-> series_id] : i \in 1..Len(SeedCatData)}
              ELSE series_categories
        /\ series_participants' =
              IF stored
              THEN series_participants
                      \cup {[id |-> sqlite_sequence.series_participants + i,
                              series_id |-> series_id,
                              participant_type |-> "boat",
                              boat_type |-> SeedBoatData[i]] :
                               i \in 1..Len(SeedBoatData)}
              ELSE series_participants
        /\ series_points' = IF stored THEN series_points \cup new_points ELSE series_points
        /\ sqlite_sequence' =
              IF stored
              THEN [sqlite_sequence EXCEPT
                       !.series = series_id,
                       !.series_tournaments = @ + Len(SeedTourneyData),
                       !.series_categories = @ + Len(SeedCatData),
                       !.series_participants = @ + Len(SeedBoatData),
                       !.series_points = @ + Len(SeedPointsData)]
              ELSE sqlite_sequence
        /\ UNCHANGED tournaments
        /\ request' = [op |-> "seed_series"]
        /\ response' = IF series # {} THEN [status |-> 200, seeded |-> 0]
                       ELSE IF conflict THEN ServerError
                       ELSE [status |-> 200, seeded |-> 1]

(***************************************************************************)
(* The tournaments table: a tournament is stored with its name and its     *)
(* source; the other columns are carried along and never looked at.        *)
(***************************************************************************)
\* The ids of tournaments the clients may use up before the seeding.
MaxTournamentIds == 2

\* POST /api/tournaments
create_tournament(t) ==
    LET id == sqlite_sequence.tournaments + 1
    IN  /\ request = NoRequest
        /\ sqlite_sequence.tournaments < MaxTournamentIds
        /\ tournaments' = tournaments \cup {[id |-> id, name |-> t.name,
                                              source |-> t.source]}
        /\ sqlite_sequence' = [sqlite_sequence EXCEPT !.tournaments = id]
        /\ request' = [op |-> "create_tournament"]
        /\ response' = Ok
        /\ UNCHANGED <<series, series_tournaments, series_categories,
                       series_participants, series_points>>

\* DELETE /api/tournaments/{tournament_id}
delete_tournament(tournament_id) ==
    LET found == {r \in tournaments : r.id = tournament_id}
    IN  /\ request = NoRequest
        /\ tournaments' = tournaments \ found
        /\ request' = [op |-> "delete_tournament"]
        /\ response' = IF found = {} THEN [status |-> 404, detail |-> "Tournament not found"]
                       ELSE Ok
        /\ UNCHANGED <<series, series_tournaments, series_categories,
                       series_participants, series_points, sqlite_sequence>>

\* sample: the names of the twenty sample tournaments.
SeedTournamentNames ==
    <<"Cape Fear Redfish Classic",
      "Charleston Harbor Flounder Slam",
      "Georgia Kingfish Challenge",
      "Florida Keys Tarpon Fly Cup",
      "Alabama Deep Sea Rodeo",
      "Mississippi Sound Speckled Trout Shootout",
      "Louisiana Redfish Roundup",
      "Texas Offshore Slam",
      "Outer Banks Surf Fishing Classic",
      "Palmetto Bass Trail Championship",
      "Space Coast Snook Invitational",
      "Calcasieu Lake Slam",
      "Tybee Island Shark Tournament",
      "Gulf Shores King Mackerel Shootout",
      "Biloxi Marsh Redfishing Series",
      "South Padre Island Offshore Classic",
      "Crystal Coast Wahoo Open",
      "Myrtle Beach Pier King Classic",
      "Panhandle Cobia Cup",
      "Galveston Bay Flounder Fiesta">>

\* The rows the seeding of tournaments inserts after last_id.
SeedTournamentRows(last_id) ==
    {[id |-> last_id + i, name |-> SeedTournamentNames[i], source |-> "sample"] :
        i \in 1..Len(SeedTournamentNames)}

\* A seeding of tournaments that does not look at the table first.
seed_tournaments_unchecked ==
    /\ request = NoRequest
    /\ tournaments' = tournaments \cup SeedTournamentRows(sqlite_sequence.tournaments)
    /\ sqlite_sequence' =
          [sqlite_sequence EXCEPT !.tournaments = @ + Len(SeedTournamentNames)]
    /\ request' = [op |-> "seed_tournaments"]
    /\ response' = [status |-> 200, seeded |-> Len(SeedTournamentNames)]
    /\ UNCHANGED <<series, series_tournaments, series_categories,
                   series_participants, series_points>>

\* POST /api/tournaments/seed: nothing is inserted when the table has a row.
seed_tournaments ==
    LET stored == tournaments = {}
    IN  /\ request = NoRequest
        /\ tournaments' =
              IF stored
              THEN tournaments \cup SeedTournamentRows(sqlite_sequence.tournaments)
              ELSE tournaments
        /\ sqlite_sequence' =
              IF stored
              THEN [sqlite_sequence EXCEPT !.tournaments = @ + Len(SeedTournamentNames)]
              ELSE sqlite_sequence
        /\ request' = [op |-> "seed_tournaments"]
        /\ response' = [status |-> 200,
                        seeded |-> IF stored THEN Len(SeedTournamentNames) ELSE 0]
        /\ UNCHANGED <<series, series_tournaments, series_categories,
                       series_participants, series_points>>

(***************************************************************************)
(* The server from an empty database: init_database has created the       *)
(* tables and the clients send requests of every kind, one at a time.      *)
(***************************************************************************)
StoreInit ==
    /\ series = {}
    /\ series_tournaments = {}
    /\ series_categories = {}
    /\ series_participants = {}
    /\ series_points = {}
    /\ sqlite_sequence = SequenceOf(0, 0, 0, 0, 0)
    /\ tournaments = {}
    /\ request = NoRequest
    /\ response = NoResponse

\* The series, events, participants and points the clients send.
SeriesInputs ==
    {[best_of |-> None, participation_points |-> Some(0)],
     [best_of |-> Some(1), participation_points |-> Some(2)]}

TournamentInputs == {[event_number |-> Some(1)]}

ParticipantInputs == {[participant_type |-> "boat", boat_type |-> "charter"]}

PointInputs ==
    {[series_tournament_id |-> Some(1), participant_id |-> Some(1),
      category_id |-> Some(1), points |-> 1, notes |-> NullStr],
     [series_tournament_id |-> Some(1), participant_id |-> Some(1),
      category_id |-> Some(1), points |-> 2, notes |-> "released"],
     [series_tournament_id |-> Some(2), participant_id |-> Some(1),
      category_id |-> Some(1), points |-> 1, notes |-> NullStr],
     [series_tournament_id |-> None, participant_id |-> Some(1),
      category_id |-> Some(1), points |-> 1, notes |-> NullStr]}

Batches == UNION {[1..n -> PointInputs] : n \in 1..MaxBatch}

StoreNext ==
    \/ \E s \in SeriesInputs : create_series(s)
    \/ \E s \in SeriesInputs : update_series(1, s)
    \/ delete_series(1)
    \/ \E t \in TournamentInputs : add_series_tournament(1, t)
    \/ delete_series_tournament(1, 1)
    \/ add_series_category(1)
    \/ delete_series_category(1, 1)
    \/ \E p \in ParticipantInputs : add_series_participant(1, p)
    \/ delete_series_participant(1, 1)
    \/ \E series_id \in {1, 2}, points \in Batches :
          IdsUsed + Len(points) <= MaxIds /\ save_series_points(series_id, points)
    \/ seed_series
    \/ \E series_id \in {1, 2} : get_standings(series_id, NullStr, None)
    \/ Respond

StoreSpec == StoreInit /\ [][StoreNext]_vars

(***************************************************************************)
(* The two seed requests from an empty database, among the requests that   *)
(* fill and empty the tables they look at.                                 *)
(***************************************************************************)
TournamentRecords == {[name |-> "Club Open", source |-> "manual"]}

SeedNext ==
    \/ \E s \in SeriesInputs : create_series(s)
    \/ \E series_id \in {1, 2} : delete_series(series_id)
    \/ \E p \in PointInputs : IdsUsed < MaxIds /\ save_series_points(1, <<p>>)
    \/ \E t \in TournamentRecords : create_tournament(t)
    \/ \E tournament_id \in 1..MaxTournamentIds : delete_tournament(tournament_id)
    \/ seed_series
    \/ seed_tournaments
    \/ Respond

SeedSpec == StoreInit /\ [][SeedNext]_vars

(***************************************************************************)
(* Series without a configured best_of, short and long.  The handler       *)
(* applies DefaultBestOf to them; a store may hold any number of events    *)
(* for a series (add_series_tournament has no limit and total_events is    *)
(* not enforced), so the family has the short series of the stores above   *)
(* and one series with one event more than DefaultBestOf, in which the     *)
(* first participant scored a point at every event.                        *)
(***************************************************************************)
ManyEvents == DefaultBestOf + 1

LongSeriesInit ==
    /\ \/ /\ \E pp \in ParticipationValues :
                series = {[id |-> 1, best_of |-> None, participation_points |-> pp]}
          /\ \E n \in 0..MaxEvents, ascending \in BOOLEAN :
                /\ series_tournaments = EventRows(n, ascending)
                /\ \E entered \in SoloEntries(n) :
                      /\ series_points = PointRows(entered)
                      /\ sqlite_sequence =
                            SequenceOf(1, n, Cardinality(CategoryRows), MaxParticipants,
                                       Cardinality(PointRows(entered)))
       \/ /\ series = {[id |-> 1, best_of |-> None, participation_points |-> None]}
          /\ series_tournaments = EventRows(ManyEvents, TRUE)
          /\ series_points = PointRows([k \in FirstKeys(ManyEvents) |-> Some(1)])
          /\ sqlite_sequence =
                SequenceOf(1, ManyEvents, Cardinality(CategoryRows), MaxParticipants,
                           ManyEvents)
    /\ series_participants = {ParticipantRow(i) : i \in 1..MaxParticipants}
    /\ series_categories = CategoryRows
    /\ tournaments = {}
    /\ request = NoRequest
    /\ response = NoResponse

LongSeriesNext ==
    \/ get_standings(1, NullStr, None)
    \/ Respond

LongSeriesSpec == LongSeriesInit /\ [][LongSeriesNext]_vars

(***************************************************************************)
(* Standings under the group filter and the category filter: stores with   *)
(* participants of every kind that add_series_participant stores, each     *)
(* with or without entries in two categories at the first event, and       *)
(* requests with every group and with a category.                          *)
(***************************************************************************)
ParticipantKinds ==
    {[participant_type |-> "boat", boat_type |-> "private"],
     [participant_type |-> "boat", boat_type |-> "charter"],
     [participant_type |-> "angler", boat_type |-> NullStr],
     [participant_type |-> "angler", boat_type |-> "charter"]}

\* The values of the group parameter the page sends, and its absence.
Groups == {NullStr, "all", "boat", "angler", "private", "charter"}

FilterEntries(m) ==
    {a @@ b :
        a \in [{<<1, p, 1>> : p \in 1..m} -> {None, Some(2)}],
        b \in [{<<1, p, 2>> : p \in 1..m} -> {None, Some(1)}]}

FilterInit ==
    /\ series \in {{[id |-> 1, best_of |-> None, participation_points |-> None]},
                    {[id |-> 1, best_of |-> Some(1), participation_points |-> Some(2)]}}
    /\ series_tournaments = EventRows(MaxEvents, TRUE)
    /\ series_categories = CategoryRows
    /\ \E m \in 0..MaxParticipants :
          /\ \E kinds \in [1..m -> ParticipantKinds] :
                series_participants =
                   {[id |-> i, series_id |-> 1,
                     participant_type |-> kinds[i].participant_type,
                     boat_type |-> kinds[i].boat_type] : i \in 1..m}
          /\ \E entered \in FilterEntries(m) :
                /\ series_points = PointRows(entered)
                /\ sqlite_sequence =
                      SequenceOf(1, MaxEvents, Cardinality(CategoryRows), m,
                                 Cardinality(PointRows(entered)))
    /\ tournaments = {}
    /\ request = NoRequest
    /\ response = NoResponse

FilterNext ==
    \/ \E group \in Groups : get_standings(1, group, None)
    \/ \E category_id \in {Some(0), Some(1), Some(2)} :
          get_standings(1, NullStr, category_id)
    \/ Respond

FilterSpec == FilterInit /\ [][FilterNext]_vars

(***************************************************************************)
(* Two series in one store.  The handlers take the series id from the URL  *)
(* and the other ids from the body without comparing them, and no foreign  *)
(* key is enforced: the events and participants of the store belong to     *)
(* either series, and a point entry carries any series id next to any      *)
(* event and participant, also an event the store does not have.           *)
(***************************************************************************)
\* The owners of the rows.
SeriesIds == {1, 2}

\* The keys of the point entries: two events (the second may be missing
\* from the store or belong to the other series) and two participants.
MixedKeys == {<<e, p, 1>> : e \in {1, MaxEvents + 1}, p \in 1..2}

\* An entry of a key: none, 1 point under series 1, 2 points under series 2.
MixedEntryValues == {None, <<1, 1>>, <<2, 2>>}

MixedPointRows(entered) ==
    LET present == {k \in DOMAIN entered : entered[k] # None}
    IN  {[id |-> Cardinality({j \in present : KeyBefore(j, k)}) + 1,
          series_id |-> entered[k][1],
          series_tournament_id |-> k[1],
          participant_id |-> k[2],
          category_id |-> k[3],
          points |-> entered[k][2],
          notes |-> NullStr] : k \in present}

MixedInit ==
    /\ \E bo \in {None, Some(1)} :
          series = {[id |-> 1, best_of |-> bo, participation_points |-> Some(2)],
                    [id |-> 2, best_of |-> None, participation_points |-> None]}
    /\ \E owner \in [1..MaxEvents -> SeriesIds] :
          series_tournaments =
             {[id |-> e, series_id |-> owner[e], event_number |-> Some(e)] :
                 e \in 1..MaxEvents}
    /\ \E owner \in [1..MaxParticipants -> SeriesIds] :
          series_participants =
             {[id |-> i, series_id |-> owner[i], participant_type |-> "boat",
               boat_type |-> "private"] : i \in 1..MaxParticipants}
    /\ series_categories = CategoryRows
    /\ \E entered \in [MixedKeys -> MixedEntryValues] :
          /\ series_points = MixedPointRows(entered)
          /\ sqlite_sequence =
                SequenceOf(2, MaxEvents, Cardinality(CategoryRows), MaxParticipants,
                           Cardinality(MixedPointRows(entered)))
    /\ tournaments = {}
    /\ request = NoRequest
    /\ response = NoResponse

MixedNext ==
    \/ \E series_id \in SeriesIds : get_standings(series_id, NullStr, None)
    \/ Respond

MixedSpec == MixedInit /\ [][MixedNext]_vars

(***************************************************************************)
(* A series of two events with points and participation points of the      *)
(* size the example series uses: the entries of a boat at the two events,  *)
(* the second in one or in two categories.                                 *)
(***************************************************************************)
ScenarioBestOf == {None, Some(1), Some(2), Some(3)}
ScenarioParticipation == {None, Some(0), Some(25)}

ScenarioEntries ==
    {a @@ b @@ c :
        a \in [{<<1, 1, 1>>} -> {None, Some(0), Some(100), Some(150)}],
        b \in [{<<2, 1, 1>>} -> {None, Some(0), Some(100), Some(200)}],
        c \in [{<<2, 1, 2>>} -> {None, Some(100)}]}

ScenarioInit ==
    /\ \E bo \in ScenarioBestOf, pp \in ScenarioParticipation :
          series = {[id |-> 1, best_of |-> bo, participation_points |-> pp]}
    /\ \E ascending \in BOOLEAN : series_tournaments = EventRows(2, ascending)
    /\ series_participants = {ParticipantRow(i) : i \in 1..2}
    /\ series_categories = CategoryRows
    /\ \E entered \in ScenarioEntries :
          /\ series_points = PointRows(entered)
          /\ sqlite_sequence =
                SequenceOf(1, 2, Cardinality(CategoryRows), 2,
                           Cardinality(PointRows(entered)))
    /\ tournaments = {}
    /\ request = NoRequest
    /\ response = NoResponse

ScenarioNext ==
    \/ get_standings(1, NullStr, None)
    \/ Respond

ScenarioSpec == ScenarioInit /\ [][ScenarioNext]_vars

(***************************************************************************)
(* Two server processes on one database file.  A handler is a coroutine    *)
(* without an await, so the requests of one process are served one at a    *)
(* time; a second process has its own event loop and its own connections.  *)
(* get_standings runs its four SELECTs on a connection of the sqlite3      *)
(* module, which opens no transaction for a SELECT: each statement reads   *)
(* the database as it is when it runs, and the other process may commit    *)
(* between two of them.  The request of this process records where the     *)
(* handler stands, the rows it has read, and the stores the database went  *)
(* through since the handler began.                                        *)
(***************************************************************************)
\* The commits of the other process followed during one standings request.
MaxCommitsDuringRequest == 2
\* The ids of point entries the other process may use up.
MaxPointIds == 4

\* The tables of the store as they are now.
StoreNow ==
    [series |-> series, series_tournaments |-> series_tournaments,
     series_participants |-> series_participants, series_points |-> series_points]

\* The handler is between two of its queries.
Reading == "at" \in DOMAIN request

\* SELECT * FROM series WHERE id = ?, and the 404.
standings_read_series(series_id, group, category_id) ==
    LET found == {s \in series : s.id = series_id}
    IN  /\ request = NoRequest
        /\ request' =
              IF found = {}
              THEN [series_id |-> series_id, group |-> group,
                    category_id |-> category_id, seen |-> {StoreNow}]
              ELSE [series_id |-> series_id, group |-> group,
                    category_id |-> category_id, seen |-> {StoreNow},
                    at |-> "tournaments",
                    series_row |-> CHOOSE s \in found : TRUE,
                    tourney_list |-> <<>>, participants |-> <<>>]
        /\ response' = IF found = {} THEN NotFound ELSE NoResponse
        /\ UNCHANGED store

\* SELECT * FROM series_tournaments WHERE series_id = ? ORDER BY event_number
standings_read_tournaments ==
    /\ Reading /\ request.at = "tournaments"
    /\ request' = [request EXCEPT !.at = "participants",
                                  !.tourney_list = SelectTournaments(request.series_id)]
    /\ UNCHANGED <<response, store>>

\* SELECT * FROM series_participants WHERE series_id = ? (and the group)
standings_read_participants ==
    /\ Reading /\ request.at = "participants"
    /\ request' = [request EXCEPT !.at = "points",
                                  !.participants =
                                      SelectParticipants(request.series_id, request.group)]
    /\ UNCHANGED <<response, store>>

\* SELECT * FROM series_points WHERE series_id = ? (and the category), the
\* loop, the sort, the ranks and the return.
standings_read_points ==
    /\ Reading /\ request.at = "points"
    /\ response' = StandingsOf(request.series_row, request.tourney_list,
                               request.participants,
                               SelectPoints(request.series_id, request.category_id))
    /\ request' = [series_id |-> request.series_id, group |-> request.group,
                   category_id |-> request.category_id, seen |-> request.seen]
    /\ UNCHANGED store

\* The request of this process after a commit of the other process: a
\* handler between two queries has one more store behind it.
AfterCommit(tables) ==
    IF Reading THEN [request EXCEPT !.seen = @ \cup {tables}] ELSE request

\* The other process may commit: this process is idle, or its handler is
\* between two queries and few commits were followed.
MayCommit ==
    \/ request = NoRequest
    \/ Reading /\ Cardinality(request.seen) <= MaxCommitsDuringRequest

\* PUT /api/series/{series_id}, served by the other process.
other_update_series(series_id, s) ==
    LET found == {r \in series : r.id = series_id}
    IN  /\ MayCommit
        /\ series' = (series \ found)
                        \cup {[id |-> r.id, best_of |-> s.best_of,
                                participation_points |-> s.participation_points] :
                                 r \in found}
        /\ UNCHANGED <<tournaments,
                       series_tournaments, series_categories, series_participants,
                       series_points, sqlite_sequence, response>>
        /\ request' = AfterCommit(StoreNow')

\* DELETE /api/series/{series_id}/tournaments/{tournament_id}, served by the
\* other process.
other_delete_series_tournament(series_id, tournament_id) ==
    /\ MayCommit
    /\ series_tournaments' =
          {r \in series_tournaments : ~(r.id = tournament_id /\ r.series_id = series_id)}
    /\ UNCHANGED <<tournaments,
                   series, series_categories, series_participants, series_points,
                   sqlite_sequence, response>>
    /\ request' = AfterCommit(StoreNow')

\* DELETE /api/series/{series_id}/participants/{participant_id}, served by
\* the other process.
other_delete_series_participant(series_id, participant_id) ==
    /\ MayCommit
    /\ series_participants' =
          {r \in series_participants :
              ~(r.id = participant_id /\ r.series_id = series_id)}
    /\ UNCHANGED <<tournaments,
                   series, series_tournaments, series_categories, series_points,
                   sqlite_sequence, response>>
    /\ request' = AfterCommit(StoreNow')

\* POST /api/series/{series_id}/points with one point, served by the other
\* process.
other_save_series_points(series_id, p) ==
    LET after == UpsertPoints(series_points, sqlite_sequence.series_points,
                              series_id, <<p>>)
    IN  /\ MayCommit
        /\ ~ViolatesNotNull(p)
        /\ sqlite_sequence.series_points < MaxPointIds
        /\ series_points' = after.rows
        /\ sqlite_sequence' = [sqlite_sequence EXCEPT !.series_points = after.last_id]
        /\ UNCHANGED <<tournaments,
                       series, series_tournaments, series_categories,
                       series_participants, response>>
        /\ request' = AfterCommit(StoreNow')

TwoProcessInit ==
    /\ series = {[id |-> 1, best_of |-> Some(1), participation_points |-> Some(2)]}
    /\ series_tournaments = EventRows(2, TRUE)
    /\ series_participants = {ParticipantRow(i) : i \in 1..2}
    /\ series_categories = CategoryRows
    /\ \E entered \in [FirstKeys(2) -> {None, Some(1)}] :
          /\ series_points = PointRows(entered)
          /\ sqlite_sequence =
                SequenceOf(1, 2, Cardinality(CategoryRows), 2,
                           Cardinality(PointRows(entered)))
    /\ tournaments = {}
    /\ request = NoRequest
    /\ response = NoResponse

TwoProcessNext ==
    \/ \E series_id \in {1, 2} : standings_read_series(series_id, NullStr, None)
    \/ standings_read_tournaments
    \/ standings_read_participants
    \/ standings_read_points
    \/ ~Reading /\ Respond
    \/ \E s \in SeriesInputs : other_update_series(1, s)
    \/ other_delete_series_tournament(1, 1)
    \/ other_delete_series_participant(1, 1)
    \/ \E p \in PointInputs : other_save_series_points(1, p)

TwoProcessSpec == TwoProcessInit /\ [][TwoProcessNext]_vars

(***************************************************************************)
(* Corrected entries.  A client sends a point entry again with other       *)
(* points; the upsert of save_series_points replaces the points of the     *)
(* stored entry.  The stores: a series of MaxEvents events where the first *)
(* participant has an entry at every event and may have one in a second    *)
(* category at the first event.                                            *)
(***************************************************************************)
\* The corrections of one run.
MaxCorrections == 1

CorrectableEntries ==
    {a @@ b :
        a \in [FirstKeys(MaxEvents) -> {Some(0), Some(2)}],
        b \in [SecondCategoryKeys(MaxEvents) -> {None, Some(-1), Some(1)}]}

\* The entries sent again.
CorrectionInputs ==
    {[series_tournament_id |-> Some(k[1]), participant_id |-> Some(k[2]),
      category_id |-> Some(k[3]), points |-> v, notes |-> NullStr] :
        k \in FirstKeys(MaxEvents) \cup SecondCategoryKeys(MaxEvents),
        v \in {0, 1, 3}}

\* The store holds an entry under the key of p: the INSERT takes the
\* ON CONFLICT branch, which uses up an id.
Stored(p) ==
    \E r \in series_points :
        /\ r.series_tournament_id = p.series_tournament_id[1]
        /\ r.participant_id = p.participant_id[1]
        /\ r.category_id = p.category_id[1]

CorrectionsMade == sqlite_sequence.series_points - Cardinality(series_points)

MonotoneInit ==
    /\ \E bo \in BestOfValues, pp \in ParticipationValues :
          series = {[id |-> 1, best_of |-> bo, participation_points |-> pp]}
    /\ series_tournaments = EventRows(MaxEvents, TRUE)
    /\ series_participants = {ParticipantRow(i) : i \in 1..2}
    /\ series_categories = CategoryRows
    /\ \E entered \in CorrectableEntries :
          /\ series_points = PointRows(entered)
          /\ sqlite_sequence =
                SequenceOf(1, MaxEvents, Cardinality(CategoryRows), 2,
                           Cardinality(PointRows(entered)))
    /\ tournaments = {}
    /\ request = NoRequest
    /\ response = NoResponse

MonotoneNext ==
    \/ \E p \in CorrectionInputs :
          /\ Stored(p)
          /\ CorrectionsMade < MaxCorrections
          /\ save_series_points(1, <<p>>)
    \/ get_standings(1, NullStr, None)
    \/ Respond

MonotoneSpec == MonotoneInit /\ [][MonotoneNext]_vars

(***************************************************************************)
(* Reading a standings result, and the store it was computed from.         *)
(***************************************************************************)
\* The handler returned a leaderboard (not an error).
Served == response.status = 200

NumEvents == Len(response.tournaments)
NumRows == Len(response.standings)

\* The participation points the result was computed with.
AppliedParticipation ==
    IF response.series.participation_points = None THEN 0
    ELSE response.series.participation_points[1]

\* The per-event totals a row reports, in the order of the event list.
RowTotals(r) ==
    List([i \in 1..NumEvents |->
             r.per_tournament[ToString(response.tournaments[i].id)].points])

\* The counted flags a row reports, in the order of the event list.
RowCounted(r) ==
    List([i \in 1..NumEvents |->
             r.per_tournament[ToString(response.tournaments[i].id)].counted])

\* The sum of the totals at a set of positions.
RECURSIVE SetSum(_, _)
SetSum(totals, positions) ==
    IF positions = {} THEN 0
    ELSE LET i == CHOOSE i \in positions : TRUE
         IN  totals[i] + SetSum(totals, positions \ {i})

SumsOfAny(totals, k) ==
    {SetSum(totals, chosen) :
        chosen \in {c \in SUBSET (1..Len(totals)) : Cardinality(c) = k}}

\* The sum of the k largest totals: no k of them sum to more.
SumOfLargest(totals, k) ==
    LET sums == SumsOfAny(totals, k)
    IN  CHOOSE x \in sums : \A y \in sums : y <= x

\* The sum of the k smallest totals: no k of them sum to less.
SumOfSmallest(totals, k) ==
    LET sums == SumsOfAny(totals, k)
    IN  CHOOSE x \in sums : \A y \in sums : x <= y

SumOfAll(totals) == SetSum(totals, 1..Len(totals))

NumPositive(totals) == Cardinality({i \in 1..Len(totals) : totals[i] > 0})

\* The number of events the best-of cut selects.
NumSelected == Min(response.best_of, NumEvents)

\* The sum of the points of a set of point entries.
RECURSIVE PointSum(_)
PointSum(rows) ==
    IF rows = {} THEN 0
    ELSE LET r == CHOOSE r \in rows : TRUE
         IN  r.points + PointSum(rows \ {r})

\* The entries of the store that the request asks to score for a
\* participant at an event.
EntriesAt(pid, tid) ==
    {p \in series_points :
        /\ p.series_id = request.series_id
        /\ p.participant_id = pid
        /\ p.series_tournament_id = tid
        /\ (request.category_id \in {None, Some(0)}
               \/ p.category_id = request.category_id[1])}

\* The participants of the store that the request selects.
Selected ==
    {p \in series_participants :
        /\ p.series_id = request.series_id
        /\ request.group \in {"boat", "angler"} => p.participant_type = request.group
        /\ request.group \in {"private", "charter"} =>
              p.participant_type = "boat" /\ p.boat_type = request.group}

(***************************************************************************)
(* Best-of selection and participation bonus.                              *)
(***************************************************************************)
\* C1: for every participant in the result, best_of_score before the
\* participation bonus is the sum of the min(best_of, number of events)
\* largest per-event totals, for every best_of >= 1; with no more events
\* than best_of it is the sum of all event totals.
C1_BestOfScoreIsSumOfLargest ==
    Served /\ response.best_of >= 1 =>
        \A k \in 1..NumRows :
            LET r == response.standings[k]
                totals == RowTotals(r)
                before_bonus == r.best_of_score - r.events_fished * AppliedParticipation
            IN  /\ before_bonus = SumOfLargest(totals, NumSelected)
                /\ NumEvents <= response.best_of => before_bonus = SumOfAll(totals)

\* C1 happens: best 2 of 3 events with totals 2, -1, 1 and a bonus of 2 per
\* event fished give 2 + 1 + 2 * 2.
C1_Witness ==
    /\ Served /\ response.best_of = 2 /\ NumEvents = 3 /\ AppliedParticipation = 2
    /\ \E k \in 1..NumRows :
          /\ RowTotals(response.standings[k]) = <<2, -1, 1>>
          /\ response.standings[k].best_of_score = 7

\* C2: the participation bonus events_fished * participation_points is in
\* best_of_score once and in aggregate once, and it counts every event with
\* a positive total, also those the best-of cut leaves out.
C2_ParticipationBonusOnce ==
    Served =>
        \A k \in 1..NumRows :
            LET r == response.standings[k]
                totals == RowTotals(r)
                bonus == NumPositive(totals) * AppliedParticipation
            IN  /\ r.best_of_score - SumOfLargest(totals, NumSelected) = bonus
                /\ r.aggregate - SumOfAll(totals) = bonus

\* C2 happens: best 1 of 2 events with totals 1 and 2 and a bonus of 2: both
\* events earn the bonus, 2 + 4 and 3 + 4.
C2_Witness ==
    /\ Served /\ response.best_of = 1 /\ AppliedParticipation = 2
    /\ \E k \in 1..NumRows :
          /\ RowTotals(response.standings[k]) = <<1, 2>>
          /\ response.standings[k].best_of_score = 6
          /\ response.standings[k].aggregate = 7

\* Event j comes before event i in the order by total descending, equal
\* totals in the order of the event list.
ComesBefore(totals, j, i) ==
    \/ totals[j] > totals[i]
    \/ totals[j] = totals[i] /\ j < i

\* C3: an event is marked counted exactly when it is among the first best_of
\* events by total descending (equal totals in event-list order) and its
\* total is greater than 0; an event with total 0 is never counted.
C3_CountedFlags ==
    Served =>
        \A k \in 1..NumRows :
            LET totals == RowTotals(response.standings[k])
                counted == RowCounted(response.standings[k])
            IN  \A i \in 1..NumEvents :
                   counted[i] <=>
                      /\ Cardinality({j \in 1..NumEvents : ComesBefore(totals, j, i)})
                            < response.best_of
                      /\ totals[i] > 0

\* C3 happens: two events tie on a positive total, the one earlier in the
\* event list has the larger id, and the cut keeps it and drops the other.
C3_Witness ==
    /\ Served
    /\ \E k \in 1..NumRows :
          LET totals == RowTotals(response.standings[k])
              counted == RowCounted(response.standings[k])
          IN  \E i, j \in 1..NumEvents :
                 /\ i < j /\ totals[i] = totals[j] /\ totals[i] > 0
                 /\ response.tournaments[i].id > response.tournaments[j].id
                 /\ counted[i] /\ ~counted[j]

(***************************************************************************)
(* Ranking.                                                                *)
(***************************************************************************)
\* C4: the standings are ordered by best_of_score descending and, among
\* equal best_of_score, by aggregate descending.
C4_OrderedByScoreThenAggregate ==
    Served =>
        \A i, j \in 1..NumRows :
            i < j =>
               \/ response.standings[i].best_of_score > response.standings[j].best_of_score
               \/ /\ response.standings[i].best_of_score = response.standings[j].best_of_score
                  /\ response.standings[i].aggregate >= response.standings[j].aggregate

\* C4 happens: the second participant of the list ties the first on
\* best_of_score and is placed first by its larger aggregate.
C4_Witness ==
    /\ Served /\ NumRows >= 2
    /\ response.standings[1].participant.id > response.standings[2].participant.id
    /\ response.standings[1].best_of_score = response.standings[2].best_of_score
    /\ response.standings[1].aggregate > response.standings[2].aggregate

\* Two rows tie on both sort keys.
Tied(a, b) == a.best_of_score = b.best_of_score /\ a.aggregate = b.aggregate

\* C5: the rank of a row is its 1-based position, so n rows have the ranks
\* 1..n; rows tied on both keys stay in the order of the participant list
\* (the participant query returns rows in id order).
C5_SequentialRanks ==
    Served =>
        /\ \A i \in 1..NumRows : response.standings[i].rank = i
        /\ {response.standings[i].rank : i \in 1..NumRows} = 1..NumRows
        /\ \A i, j \in 1..NumRows :
              i < j /\ Tied(response.standings[i], response.standings[j]) =>
                 /\ response.standings[i].participant.id
                       < response.standings[j].participant.id
                 /\ response.standings[j].rank = response.standings[i].rank + (j - i)

\* C5 happens: two participants tie on both keys with a score above 0 and
\* take the ranks 1 and 2.
C5_Witness ==
    /\ Served /\ NumRows >= 2
    /\ Tied(response.standings[1], response.standings[2])
    /\ response.standings[1].best_of_score > 0
    /\ response.standings[1].rank = 1 /\ response.standings[2].rank = 2

(***************************************************************************)
(* Best-of score against aggregate.                                        *)
(***************************************************************************)
\* C6 as stated: best_of_score <= aggregate for every participant, negative
\* points included.
C6_Original ==
    Served =>
        \A k \in 1..NumRows :
            response.standings[k].best_of_score <= response.standings[k].aggregate

\* C6 amended: best_of_score <= aggregate for every participant none of
\* whose per-event totals is negative.
C6_BestOfAtMostAggregate ==
    Served =>
        \A k \in 1..NumRows :
            LET totals == RowTotals(response.standings[k])
            IN  (\A i \in 1..NumEvents : totals[i] >= 0) =>
                   response.standings[k].best_of_score <= response.standings[k].aggregate

\* C6 happens: no total is negative and the cut leaves a positive total out.
C6_Witness ==
    /\ Served
    /\ \E k \in 1..NumRows :
          /\ \A i \in 1..NumEvents : RowTotals(response.standings[k])[i] >= 0
          /\ response.standings[k].best_of_score < response.standings[k].aggregate

\* C7: aggregate minus best_of_score is the sum of the totals the best-of cut
\* leaves out (the smallest ones, after the first best_of in descending
\* order); the two are equal when best_of is at least the number of events.
C7_AggregateMinusBestOf ==
    Served =>
        \A k \in 1..NumRows :
            LET r == response.standings[k]
            IN  /\ r.aggregate - r.best_of_score
                      = SumOfSmallest(RowTotals(r), NumEvents - NumSelected)
                /\ response.best_of >= NumEvents => r.aggregate = r.best_of_score

\* C7 happens: best 1 of 3 events with totals 2, 1, 1 leaves 1 + 1 out.
C7_Witness ==
    /\ Served /\ response.best_of = 1 /\ NumEvents = 3
    /\ \E k \in 1..NumRows :
          /\ RowTotals(response.standings[k]) = <<2, 1, 1>>
          /\ response.standings[k].aggregate - response.standings[k].best_of_score = 2

(***************************************************************************)
(* Events fished.                                                          *)
(***************************************************************************)
\* The events of the requested series in the store.
EventsOfSeries == {t \in series_tournaments : t.series_id = request.series_id}

\* C8: events_fished is the number of events whose entries sum to more than
\* 0, and never exceeds the number of events of the series; an event whose
\* entries sum to 0 does not count.
C8_EventsFished ==
    Served =>
        \A k \in 1..NumRows :
            LET r == response.standings[k]
            IN  /\ r.events_fished =
                      Cardinality({t \in EventsOfSeries :
                                      PointSum(EntriesAt(r.participant.id, t.id)) > 0})
                /\ r.events_fished <= Cardinality(EventsOfSeries)

\* C8 happens: one event has two entries that sum to 0, another a positive
\* total, and events_fished is 1.
C8_Witness ==
    /\ Served
    /\ \E k \in 1..NumRows :
          /\ response.standings[k].events_fished = 1
          /\ \E t \in EventsOfSeries :
                /\ Cardinality(EntriesAt(response.standings[k].participant.id, t.id)) = 2
                /\ PointSum(EntriesAt(response.standings[k].participant.id, t.id)) = 0

\* C9 as stated: events_fished is 0 exactly when every per-event total is 0.
C9_Original ==
    Served =>
        \A k \in 1..NumRows :
            LET totals == RowTotals(response.standings[k])
            IN  response.standings[k].events_fished = 0
                   <=> \A i \in 1..NumEvents : totals[i] = 0

\* C9 amended: events_fished is 0 exactly when no per-event total is greater
\* than 0.
C9_NoneFishedIffNoPositive ==
    Served =>
        \A k \in 1..NumRows :
            LET totals == RowTotals(response.standings[k])
            IN  response.standings[k].events_fished = 0
                   <=> \A i \in 1..NumEvents : totals[i] <= 0

\* C9 happens: a participant with a negative total and no positive total
\* has events_fished 0.
C9_Witness ==
    /\ Served
    /\ \E k \in 1..NumRows :
          /\ response.standings[k].events_fished = 0
          /\ \E i \in 1..NumEvents : RowTotals(response.standings[k])[i] < 0

(***************************************************************************)
(* Rows and participants.                                                  *)
(***************************************************************************)
\* C10: the standings hold one row for every participant the request
\* selects: none is dropped, none appears twice.
C10_OneRowPerSelected ==
    Served =>
        /\ NumRows = Cardinality(Selected)
        /\ {response.standings[k].participant : k \in 1..NumRows} = Selected

\* C10 happens: the group filter selects one of the two participants of
\* the series and the standings have one row.
C10_Witness ==
    /\ Served /\ request.group = "charter"
    /\ Cardinality(series_participants) = 2
    /\ NumRows = 1 /\ response.standings[1].participant.boat_type = "charter"

(***************************************************************************)
(* Series without a configured best_of.                                    *)
(***************************************************************************)
\* C11 as stated: when the series has no configured best_of, the best_of
\* applied is larger than the number of events, whatever that number is, and
\* every participant's best_of_score equals their aggregate.
C11_Original ==
    Served /\ response.series.best_of = None =>
        /\ response.best_of > NumEvents
        /\ \A k \in 1..NumRows :
              response.standings[k].best_of_score = response.standings[k].aggregate

\* C11 for the series DefaultBestOf covers: with no configured best_of and
\* fewer events than DefaultBestOf, the best_of applied is larger than the
\* number of events and best_of_score equals aggregate.
C11_AllEventsCountUpToDefault ==
    Served /\ response.series.best_of = None /\ NumEvents < DefaultBestOf =>
        /\ response.best_of > NumEvents
        /\ \A k \in 1..NumRows :
              response.standings[k].best_of_score = response.standings[k].aggregate

\* C11 happens: a series without best_of whose participant scored at three
\* events has all three in best_of_score.
C11_Witness ==
    /\ Served /\ response.series.best_of = None /\ NumEvents = 3
    /\ \E k \in 1..NumRows :
          /\ response.standings[k].events_fished = 3
          /\ response.standings[k].best_of_score = response.standings[k].aggregate

(***************************************************************************)
(* The write handlers and the store.                                       *)
(***************************************************************************)
\* The request being served is one of the named write handler.
Handled(op) == "op" \in DOMAIN request /\ request.op = op

\* The request being served is a standings request.
StandingsRequested == request # NoRequest /\ "group" \in DOMAIN request

\* The (event, participant, category) key of a stored entry and of a point
\* of a request.
RowKey(r) == <<r.series_tournament_id, r.participant_id, r.category_id>>
RequestKey(p) == <<p.series_tournament_id[1], p.participant_id[1], p.category_id[1]>>

\* No two entries of the store have the same key.
UniqueKeys == \A a, b \in series_points : RowKey(a) = RowKey(b) => a = b

\* A successful save_series_points step keeps every entry under its id and
\* key, gives an entry whose key the request writes the points and note
\* the request wrote to it last, leaves the other entries as they were, and
\* adds one row for each key that had no entry.
SaveReplaces ==
    Handled("save_series_points")' /\ response'.status = 200 =>
        LET pts == request'.points
            new_keys == {RequestKey(pts[i]) : i \in 1..Len(pts)}
                           \ {RowKey(r) : r \in series_points}
        IN  /\ \A r \in series_points :
                  LET written == {i \in 1..Len(pts) : RequestKey(pts[i]) = RowKey(r)}
                      last == CHOOSE i \in written : \A j \in written : j <= i
                  IN  \E q \in series_points' :
                         /\ q.id = r.id /\ RowKey(q) = RowKey(r)
                         /\ IF written = {} THEN q = r
                            ELSE q.points = pts[last].points /\ q.notes = pts[last].notes
            /\ Cardinality(series_points')
                  = Cardinality(series_points) + Cardinality(new_keys)

\* C12: whatever save_series_points requests and seeding were served, the
\* store holds at most one point entry per (event, participant, category),
\* and a write to a key that has an entry replaces the points and note of
\* that entry and adds no row.
C12_UpsertKeepsKeysUnique == []UniqueKeys /\ [][SaveReplaces]_vars

\* C12 happens: a key written before is written again with 2 points and a
\* note; the store still has the one row, with the new points and note.
C12_Witness ==
    /\ Handled("save_series_points") /\ response.status = 200
    /\ Len(request.points) = 1 /\ request.points[1].points = 2
    /\ sqlite_sequence.series_points = 2
    /\ series_points = {[id |-> 1, series_id |-> 1, series_tournament_id |-> 1,
                         participant_id |-> 1, category_id |-> 1,
                         points |-> 2, notes |-> "released"]}

\* The rows of the child tables that belong to a series.
ChildrenOf(series_id) ==
    {r \in series_tournaments : r.series_id = series_id}
    \cup {r \in series_categories : r.series_id = series_id}
    \cup {r \in series_participants : r.series_id = series_id}
    \cup {r \in series_points : r.series_id = series_id}

\* C13 as stated: when delete_series has succeeded for a series, no event,
\* category, participant or point entry of that series is left in the store.
C13_Original ==
    Handled("delete_series") /\ response.status = 200 =>
        ChildrenOf(request.series_id) = {}

\* C13 for the series row itself: when delete_series has succeeded for a
\* series, the series table has no row of that id.
C13_SeriesRowDeleted ==
    Handled("delete_series") /\ response.status = 200 =>
        \A r \in series : r.id # request.series_id

\* C13 happens: delete_series succeeds for a series that had an event, a
\* participant and a point entry.
C13_Witness ==
    /\ Handled("delete_series") /\ response.status = 200
    /\ sqlite_sequence.series_tournaments >= 1
    /\ sqlite_sequence.series_participants >= 1
    /\ sqlite_sequence.series_points >= 1

(***************************************************************************)
(* The group filter and the category filter.                               *)
(***************************************************************************)
\* The participants of the requested series, and those in the standings.
ParticipantsOfSeries == {p \in series_participants : p.series_id = request.series_id}
Shown == {response.standings[k].participant : k \in 1..NumRows}

\* C14: the standings show every participant of the series when group is
\* absent or "all", those of participant_type group when group is "boat" or
\* "angler", and the boats of boat_type group when group is "private" or
\* "charter"; nobody else appears, nobody appears twice.
C14_GroupFilter ==
    Served =>
        /\ NumRows = Cardinality(Shown)
        /\ request.group \in {NullStr, "all"} => Shown = ParticipantsOfSeries
        /\ request.group \in {"boat", "angler"} =>
              Shown = {p \in ParticipantsOfSeries : p.participant_type = request.group}
        /\ request.group \in {"private", "charter"} =>
              Shown = {p \in ParticipantsOfSeries :
                          p.participant_type = "boat" /\ p.boat_type = request.group}

\* C14 happens: the series has a charter boat and an angler whose boat_type
\* is "charter"; the group "charter" shows the boat alone.
C14_Witness ==
    /\ Served /\ request.group = "charter" /\ NumRows = 1
    /\ response.standings[1].participant.participant_type = "boat"
    /\ \E p \in ParticipantsOfSeries :
          p.participant_type = "angler" /\ p.boat_type = "charter"

\* The row of a participant as the loop computes it when the point query
\* returns the participant's own entries and nothing else.
RowFromOwnEntries(part) ==
    LET Own(p) == p.participant_id = part.id
        own == SelectSeq(SelectPoints(request.series_id, request.category_id), Own)
        tourney_ids == List([i \in 1..NumEvents |-> response.tournaments[i].id])
    IN  StandingOf(part, tourney_ids, own, response.best_of, AppliedParticipation)

\* C15: the per-event totals, events_fished, best_of_score and aggregate of
\* a participant are those computed from the participant's own entries
\* alone: neither the entries of other participants nor the group filter,
\* which decides who else is in the standings, have a part in them.
C15_OwnEntriesOnly ==
    Served =>
        \A k \in 1..NumRows :
            LET r == response.standings[k]
                alone == RowFromOwnEntries(r.participant)
            IN  /\ r.per_tournament = alone.per_tournament
                /\ r.events_fished = alone.events_fished
                /\ r.best_of_score = alone.best_of_score
                /\ r.aggregate = alone.aggregate

\* C15 happens: two participants have entries at the same event, the group
\* filter drops one of them, and the one shown has the total of its own
\* entries.
C15_Witness ==
    /\ Served /\ request.group = "charter" /\ NumRows = 1
    /\ RowTotals(response.standings[1])[1] = 2
    /\ \E p \in series_points :
          /\ p.participant_id # response.standings[1].participant.id
          /\ p.series_tournament_id = 1 /\ p.points = 1

\* The entries of a participant at an event in the requested series: all of
\* them when the request names no category, those of the named category
\* when it names one.
EntriesInCategory(pid, tid) ==
    {p \in series_points :
        /\ p.series_id = request.series_id
        /\ p.participant_id = pid
        /\ p.series_tournament_id = tid
        /\ request.category_id # None => p.category_id = request.category_id[1]}

\* Every per-event total of the response is the sum of the entries the
\* request asks for; an event without such an entry has total 0.
TotalsByCategory ==
    \A k \in 1..NumRows :
        LET r == response.standings[k]
            totals == RowTotals(r)
        IN  \A i \in 1..NumEvents :
               totals[i] = PointSum(EntriesInCategory(r.participant.id,
                                                      response.tournaments[i].id))

\* C16 as stated: the per-event total is the sum over all categories when
\* the request names no category and over the named category alone when it
\* names one; an event with no matching entry has total 0.
C16_Original == Served => TotalsByCategory

\* C16 for requests without a category or with a category id other than 0.
C16_TotalsByNonZeroCategory ==
    Served /\ request.category_id # Some(0) => TotalsByCategory

\* C16 happens: a participant has 2 points in category 1 and 1 point in
\* category 2 at the first event; the request for category 2 reports 1 and
\* reports 0 for the event without entries.
C16_Witness ==
    /\ Served /\ request.category_id = Some(2)
    /\ \E k \in 1..NumRows :
          /\ Cardinality({p \in series_points :
                             p.participant_id = response.standings[k].participant.id
                             /\ p.series_tournament_id = 1}) = 2
          /\ RowTotals(response.standings[k])[1] = 1
          /\ RowTotals(response.standings[k])[2] = 0

(***************************************************************************)
(* The per-event breakdown.                                                *)
(***************************************************************************)
\* C17: the breakdown of every row has one entry for every event of the
\* series in the store, under the event's id, and no other entry, whatever
\* the group and the category of the request; its points field is the
\* participant's total at that event.
C17_BreakdownCoversEvents ==
    Served =>
        \A k \in 1..NumRows :
            LET r == response.standings[k]
            IN  /\ DOMAIN r.per_tournament = {ToString(t.id) : t \in EventsOfSeries}
                /\ Cardinality(DOMAIN r.per_tournament) = Cardinality(EventsOfSeries)
                /\ \A t \in EventsOfSeries :
                      r.per_tournament[ToString(t.id)].points
                         = PointSum(EntriesAt(r.participant.id, t.id))

\* C17 happens: under the group "private" the one boat shown has 3 points at
\* the first event and nothing later, and its breakdown lists every event
\* of the series.
C17_Witness ==
    /\ Served /\ request.group = "private" /\ NumRows = 1
    /\ Cardinality(series_participants) = 2
    /\ Cardinality(EventsOfSeries) = MaxEvents
    /\ Cardinality(DOMAIN response.standings[1].per_tournament) = MaxEvents
    /\ response.standings[1].per_tournament["1"].points = 3
    /\ response.standings[1].per_tournament["2"].points = 0

(***************************************************************************)
(* Standings and the state of the store.                                   *)
(***************************************************************************)
\* The series row the request names, as the store has it now.
RequestedSeries == {s \in series : s.id = request.series_id}

\* C18: whatever writes were served before, the result of a standings
\* request is the one computed from the store as it is at the request: the
\* series row and its best_of, the events, the participants and the sums of
\* the point entries are those of the store now, and a series that is not
\* in the store now is reported not found.
C18_ComputedFromCurrentStore ==
    StandingsRequested =>
        IF RequestedSeries = {} THEN response = NotFound
        ELSE /\ response.status = 200
             /\ response.series \in RequestedSeries
             /\ response.best_of = OrElse(response.series.best_of, DefaultBestOf)
             /\ {response.tournaments[i] : i \in 1..NumEvents} = EventsOfSeries
             /\ Shown = Selected
             /\ \A k \in 1..NumRows, i \in 1..NumEvents :
                   RowTotals(response.standings[k])[i]
                      = PointSum(EntriesAt(response.standings[k].participant.id,
                                           response.tournaments[i].id))
             /\ response = Standings(response.series, request.group, request.category_id)

\* C18 happens: an entry was saved with 1 point and saved again with 2
\* points; the standings requested next report 2.
C18_Witness ==
    /\ StandingsRequested /\ Served /\ NumRows = 1 /\ NumEvents = 1
    /\ sqlite_sequence.series_points = 2
    /\ \E p \in series_points : p.id = 1 /\ p.points = 2
    /\ RowTotals(response.standings[1]) = <<2>>

\* The one result the store determines for the arguments of a request.
ResultFor(args) ==
    LET found == {s \in series : s.id = args.series_id}
    IN  IF found = {} THEN NotFound
        ELSE Standings(CHOOSE s \in found : TRUE, args.group, args.category_id)

\* The step serves a standings request.
StandingsStep == request = NoRequest /\ StandingsRequested'

C20_StandingsWriteNothing ==
    [][StandingsStep =>
          /\ series' = series
          /\ series_tournaments' = series_tournaments
          /\ series_categories' = series_categories
          /\ series_participants' = series_participants
          /\ series_points' = series_points
          /\ sqlite_sequence' = sqlite_sequence]_vars

\* C20 happens: standings are requested for a series that is not in the
\* store while the store holds another series and point entries.
C20_Witness ==
    /\ StandingsRequested /\ response = NotFound
    /\ series # {} /\ series_points # {} /\ series_tournaments # {}

(***************************************************************************)
(* Failure modes of the standings request.                                 *)
(***************************************************************************)
\* C21: a standings request for a series id that has no row in the series
\* table is answered with the not-found error (404) and carries no
\* standings, whatever rows of that series id the other tables still hold.
C21_MissingSeriesNotFound ==
    StandingsRequested /\ RequestedSeries = {} =>
        /\ response = NotFound
        /\ response.status = 404
        /\ "standings" \notin DOMAIN response

\* C21 happens: the series was deleted, its event, participant and point
\* entry are still in the store, and the standings request is answered 404.
C21_Witness ==
    /\ StandingsRequested /\ request.series_id = 1 /\ RequestedSeries = {}
    /\ sqlite_sequence.series >= 1
    /\ \E t \in series_tournaments : t.series_id = 1
    /\ \E p \in series_participants : p.series_id = 1
    /\ \E p \in series_points : p.series_id = 1
    /\ response.status = 404

\* C22: a standings request for a series that is in the store is answered
\* with a result whatever data is missing: with no participant selected the
\* standings list is empty, and with no event every row has events_fished 0,
\* best_of_score 0, aggregate 0 and an empty per-event breakdown.
C22_MissingDataIsNoError ==
    StandingsRequested /\ RequestedSeries # {} =>
        /\ response.status = 200
        /\ Selected = {} => response.standings = <<>>
        /\ EventsOfSeries = {} =>
              /\ response.tournaments = <<>>
              /\ NumRows = Cardinality(Selected)
              /\ \A k \in 1..NumRows :
                    /\ response.standings[k].events_fished = 0
                    /\ response.standings[k].best_of_score = 0
                    /\ response.standings[k].aggregate = 0
                    /\ DOMAIN response.standings[k].per_tournament = {}

\* C22 happens: the only event of the series was deleted, the participant
\* and its point entry are still in the store, and the participant's row
\* is all zero with an empty breakdown.
C22_Witness ==
    /\ StandingsRequested /\ Served /\ EventsOfSeries = {}
    /\ response.series.participation_points = Some(2)
    /\ NumRows = 1
    /\ \E p \in series_points :
          /\ p.series_id = request.series_id
          /\ p.participant_id = response.standings[1].participant.id
          /\ p.points > 0
    /\ response.standings[1].aggregate = 0
    /\ DOMAIN response.standings[1].per_tournament = {}

(***************************************************************************)
(* Rows of other series.                                                   *)
(***************************************************************************)
\* The entries of the requested series that a participant has at the events
\* of the requested series.
OwnEntries(pid) ==
    {p \in series_points :
        /\ p.series_id = request.series_id
        /\ p.participant_id = pid
        /\ \E t \in EventsOfSeries : t.id = p.series_tournament_id}

\* C23: the standings of series S are those of the events, participants and
\* point entries of S alone: every event and every participant of the
\* result belongs to S, every per-event total is the sum of the entries of S
\* at that event, and events_fished, best_of_score and aggregate are those
\* of the entries of S at events of S; rows of another series and entries
\* of S at an event outside the event list of S have no part in them.
C23_OtherSeriesIgnored ==
    Served =>
        /\ {response.tournaments[i] : i \in 1..NumEvents} = EventsOfSeries
        /\ Shown = ParticipantsOfSeries
        /\ \A k \in 1..NumRows :
              LET r == response.standings[k]
                  own == [i \in 1..NumEvents |->
                             PointSum(EntriesAt(r.participant.id,
                                                response.tournaments[i].id))]
                  bonus == NumPositive(own) * AppliedParticipation
              IN  /\ RowTotals(r) = own
                  /\ r.events_fished = NumPositive(own)
                  /\ r.aggregate = PointSum(OwnEntries(r.participant.id)) + bonus
                  /\ r.best_of_score = SumOfLargest(own, NumSelected) + bonus

\* C23 happens: series 1 is scored while the store holds an event and a
\* participant of series 2, an entry of series 2 for a participant and an
\* event of series 1, and an entry of series 1 at an event that is not in
\* the event list of series 1; the participant's row has 0 points.
C23_Witness ==
    /\ Served /\ request.series_id = 1
    /\ \E t \in series_tournaments : t.series_id = 2
    /\ \E p \in series_participants : p.series_id = 2
    /\ \E k \in 1..NumRows :
          LET pid == response.standings[k].participant.id
          IN  /\ \E p \in series_points :
                    /\ p.series_id = 2 /\ p.participant_id = pid
                    /\ \E t \in EventsOfSeries : t.id = p.series_tournament_id
              /\ \E p \in series_points :
                    /\ p.series_id = 1 /\ p.participant_id = pid
                    /\ \A t \in EventsOfSeries : t.id # p.series_tournament_id
              /\ response.standings[k].aggregate = 0

(***************************************************************************)
(* Scenario B.                                                             *)
(***************************************************************************)
\* The participant of row k scored `first` at the first event of the event
\* list and `second` at the second, in the store.
ScoredAt(k, first, second) ==
    /\ PointSum(EntriesAt(response.standings[k].participant.id,
                          response.tournaments[1].id)) = first
    /\ PointSum(EntriesAt(response.standings[k].participant.id,
                          response.tournaments[2].id)) = second

\* C24: with 2 events, best_of 1 and 25 participation points, a participant
\* who scored 100 at event 1 and 200 at event 2 has events_fished 2,
\* best_of_score 250, aggregate 350, event 2 counted and event 1 not
\* counted.
C24_ScenarioB ==
    Served /\ NumEvents = 2 /\ response.series.best_of = Some(1)
           /\ response.series.participation_points = Some(25) =>
        \A k \in 1..NumRows :
            ScoredAt(k, 100, 200) =>
                LET r == response.standings[k]
                IN  /\ r.events_fished = 2
                    /\ r.best_of_score = 250
                    /\ r.aggregate = 350
                    /\ RowTotals(r) = <<100, 200>>
                    /\ RowCounted(r) = <<FALSE, TRUE>>
                    /\ r.counted_ids = {response.tournaments[2].id}

\* C24 happens: the scenario is in the store, the 200 points of event 2
\* in one entry, and the participant leads with 250.
C24_Witness ==
    /\ Served /\ NumEvents = 2 /\ response.series.best_of = Some(1)
    /\ response.series.participation_points = Some(25)
    /\ ScoredAt(1, 100, 200)
    /\ \E p \in series_points : p.points = 200
    /\ response.standings[1].rank = 1
    /\ response.standings[1].best_of_score = 250

(***************************************************************************)
(* Standings while another process writes.                                 *)
(***************************************************************************)
\* The result the handler returns when all its queries run on the tables
\* of one store.
ResultOn(tables, args) ==
    LET found == {s \in tables.series : s.id = args.series_id}
        series_row == CHOOSE s \in found : TRUE
        events == ScanOrder({t \in tables.series_tournaments :
                                t.series_id = args.series_id})
        tourney_list ==
            StableSort(events, List([i \in 1..Len(events) |-> EventNumberKey(events[i])]))
        participants ==
            ScanOrder({p \in tables.series_participants :
                          p.series_id = args.series_id /\ GroupKeeps(p, args.group)})
        all_points ==
            ScanOrder({p \in tables.series_points :
                          p.series_id = args.series_id
                          /\ CategoryKeeps(p, args.category_id)})
    IN  IF found = {} THEN NotFound
        ELSE StandingsOf(series_row, tourney_list, participants, all_points)

\* A standings request has been answered (in the two-process server).
Answered == StandingsRequested /\ ~Reading /\ "seen" \in DOMAIN request

\* C25 as stated: the result of a standings request is the result on one
\* store among those the database went through during the request, also
\* when another process committed writes between the handler's queries.
C25_Original ==
    Answered => \E tables \in request.seen : response = ResultOn(tables, request)

\* C25 for a request during which no other process committed: the result
\* is the result on the one store of the request.
C25_SnapshotWhenUndisturbed ==
    Answered /\ Cardinality(request.seen) = 1 =>
        \A tables \in request.seen : response = ResultOn(tables, request)

\* C25 happens: a standings request was answered with rows while the other
\* process committed twice between its queries.
C25_Witness ==
    /\ Answered /\ Served /\ NumRows >= 1
    /\ Cardinality(request.seen) = 3

(***************************************************************************)
(* Saving points: other series, and batches.                               *)
(***************************************************************************)
\* The step serves a save_series_points request.
SaveStep == request = NoRequest /\ Handled("save_series_points")'

\* C26 as stated: a save_series_points step for series S leaves the points
\* and the note of every entry whose series_id is not S as they were,
\* whatever keys the request gives.
C26_Original ==
    [][SaveStep =>
          \A r \in series_points :
              r.series_id # request'.series_id =>
                 \E q \in series_points' :
                    q.id = r.id /\ q.points = r.points /\ q.notes = r.notes]_vars

\* C26 happens: a save for series 2 gave the key of an entry of series 1;
\* the entry is still of series 1 and has the points and the note of the
\* request.
C26_Witness ==
    /\ Handled("save_series_points") /\ response.status = 200
    /\ request.series_id = 2 /\ Len(request.points) = 1
    /\ \E r \in series_points :
          /\ r.series_id = 1 /\ r.id = 1
          /\ RowKey(r) = RequestKey(request.points[1])
          /\ r.points = 2 /\ r.notes = "released"
    /\ sqlite_sequence.series_points = 2

\* A point of a request that the store rejects: a column of the key is
\* missing.
Rejected(p) ==
    \/ p.series_tournament_id = None
    \/ p.participant_id = None
    \/ p.category_id = None

\* The store has an entry with the key, the points and the note of point i
\* of the request, or of a later point of the request with the same key.
Persisted(rows, pts, i) ==
    \E j \in i..Len(pts) :
        /\ RequestKey(pts[j]) = RequestKey(pts[i])
        /\ \E q \in rows :
              /\ RowKey(q) = RequestKey(pts[j])
              /\ q.points = pts[j].points /\ q.notes = pts[j].notes

\* C27: a save_series_points step persists its batch as a whole or not at
\* all: when the store rejects a point of the batch the call fails (500)
\* and the point entries and the id counters are as they were before the
\* call, the points before the rejected one included; otherwise the call
\* succeeds and every point of the batch is in the store.
C27_BatchAllOrNothing ==
    [][SaveStep =>
          LET pts == request'.points
          IN  IF \E i \in 1..Len(pts) : Rejected(pts[i])
              THEN /\ response'.status = 500
                   /\ series_points' = series_points
                   /\ sqlite_sequence' = sqlite_sequence
              ELSE /\ response'.status = 200
                   /\ response'.saved = Len(pts)
                   /\ \A i \in 1..Len(pts) : Persisted(series_points', pts, i)]_vars

\* C27 happens: a batch of two whose first point is new and acceptable and
\* whose second point is rejected has failed, and the store has no entry
\* for the first point.
C27_Witness ==
    /\ Handled("save_series_points") /\ response.status = 500
    /\ Len(request.points) = 2
    /\ ~Rejected(request.points[1]) /\ Rejected(request.points[2])
    /\ \A r \in series_points : RowKey(r) # RequestKey(request.points[1])
    /\ series_points # {}

(***************************************************************************)
(* Counted flags and score; monotonicity.                                  *)
(***************************************************************************)
\* No point entry of the requested series is negative.
NoNegativePoints ==
    \A p \in series_points : p.series_id = request.series_id => p.points >= 0

\* The positions of the event list that a row marks counted.
CountedPositions(r) == {i \in 1..NumEvents : RowCounted(r)[i]}

\* C28: when no point entry is negative (and best_of, where configured, is
\* at least 1), the best_of_score of every row is the sum of the points of
\* the events its breakdown marks counted plus events_fished times the
\* participation points, and the row marks at most best_of events counted.
C28_CountedAgreeWithScore ==
    Served /\ NoNegativePoints /\ response.best_of >= 1 =>
        \A k \in 1..NumRows :
            LET r == response.standings[k]
            IN  /\ r.best_of_score
                      = SetSum(RowTotals(r), CountedPositions(r))
                        + r.events_fished * AppliedParticipation
                /\ Cardinality(CountedPositions(r)) <= response.best_of

\* C28 happens: best 1 of 3 events with totals 1, 2 and 0 and 2
\* participation points: the second event alone is counted and the score
\* is 2 + 2 * 2.
C28_Witness ==
    /\ Served /\ NoNegativePoints /\ response.best_of = 1
    /\ AppliedParticipation = 2
    /\ \E k \in 1..NumRows :
          /\ RowTotals(response.standings[k]) = <<1, 2, 0>>
          /\ CountedPositions(response.standings[k]) = {2}
          /\ response.standings[k].best_of_score = 6

\* No point entry of the store is negative.
AllPointsNonNegative == \A q \in series_points : q.points >= 0

\* The step stores one point of a request for series 1 over an entry of
\* that series with the same key and points that are not larger.
RaisesEntry ==
    /\ SaveStep /\ response'.status = 200
    /\ request'.series_id = 1 /\ Len(request'.points) = 1
    /\ \E r \in series_points :
          /\ r.series_id = 1
          /\ RowKey(r) = RequestKey(request'.points[1])
          /\ r.points <= request'.points[1].points

\* The scores of participant pid in a standings result.
ScoresOf(result, pid) ==
    {<<result.standings[i].best_of_score, result.standings[i].aggregate,
       result.standings[i].events_fished>> :
        i \in {j \in 1..Len(result.standings) :
                  result.standings[j].participant.id = pid}}

\* C30: when no point entry is negative, a step that replaces the points of
\* one entry by points at least as large (all other entries unchanged)
\* lowers nobody's best_of_score, aggregate or events_fished, in the
\* standings of the whole series and of each category.
C30_ScoringMonotone ==
    [][RaisesEntry /\ AllPointsNonNegative =>
          \A category_id \in {None, Some(1), Some(2)} :
              LET args == [series_id |-> 1, group |-> NullStr,
                           category_id |-> category_id]
              IN  \A before \in {ResultOn(StoreNow, args)},
                     after \in {ResultOn(StoreNow', args)},
                     part \in series_participants :
                      \A old \in ScoresOf(before, part.id) :
                          \E new \in ScoresOf(after, part.id) :
                              /\ new[1] >= old[1]
                              /\ new[2] >= old[2]
                              /\ new[3] >= old[3]]_vars

\* C30 happens: in a best-1 series with 2 participation points whose other
\* events hold 0 and 2 points, an entry has been replaced by 3 points.
C30_Witness ==
    /\ Handled("save_series_points") /\ response.status = 200
    /\ CorrectionsMade = 1
    /\ \E s \in series : s.best_of = Some(1) /\ s.participation_points = Some(2)
    /\ \A q \in series_points : q.points >= 0
    /\ {q.points : q \in {r \in series_points : r.category_id = 1}} = {0, 2, 3}

(***************************************************************************)
(* Seeding.                                                                *)
(***************************************************************************)
\* The step serves a seed request.
SeedSeriesStep == request = NoRequest /\ Handled("seed_series")'
SeedTournamentsStep == request = NoRequest /\ Handled("seed_tournaments")'

\* The step changes no table and no id counter.
NothingStored ==
    /\ tournaments' = tournaments
    /\ series' = series
    /\ series_tournaments' = series_tournaments
    /\ series_categories' = series_categories
    /\ series_participants' = series_participants
    /\ series_points' = series_points
    /\ sqlite_sequence' = sqlite_sequence

\* C29: seed_series on a store with a series, and seed_tournaments on a
\* store with a tournament, insert nothing, leave the store unchanged and
\* report seeded 0; a seeding that inserted leaves its table with a row and
\* has added the sample data once (1 series with 4 events, 13 categories,
\* 6 boats and 50 point entries; 20 tournaments), so the same request sent
\* again right after it inserts nothing.
C29_SeedOnlyIntoEmptyTable ==
    [][/\ SeedSeriesStep /\ series # {} =>
             NothingStored /\ response'.status = 200 /\ response'.seeded = 0
       /\ SeedTournamentsStep /\ tournaments # {} =>
             NothingStored /\ response'.status = 200 /\ response'.seeded = 0
       /\ SeedSeriesStep /\ response'.status = 200 /\ response'.seeded # 0 =>
             /\ series = {} /\ Cardinality(series') = 1
             /\ Cardinality(series_tournaments') = Cardinality(series_tournaments) + 4
             /\ Cardinality(series_categories') = Cardinality(series_categories) + 13
             /\ Cardinality(series_participants') = Cardinality(series_participants) + 6
             /\ Cardinality(series_points') = Cardinality(series_points) + 50
             /\ tournaments' = tournaments
       /\ SeedTournamentsStep /\ response'.seeded # 0 =>
             /\ tournaments = {} /\ Cardinality(tournaments') = 20
             /\ UNCHANGED <<series, series_tournaments, series_categories,
                            series_participants, series_points>>]_vars

\* C29 happens: both seedings have inserted their sample data, seed_series
\* was sent again, and the store holds the one series, its 50 point
\* entries and the 20 tournaments.
C29_Witness ==
    /\ Handled("seed_series") /\ response.status = 200 /\ response.seeded = 0
    /\ Cardinality(series) = 1
    /\ \A r \in series : r.best_of = Some(3) /\ r.participation_points = Some(25)
    /\ Cardinality(series_tournaments) = 4
    /\ Cardinality(series_points) = 50
    /\ Cardinality(tournaments) = 20

====
